---- MODULE Spec2Model ----
(***************************************************************************)
(* A model of the TypedDict support of pyright's analyzer                  *)
(* (packages/pyright-internal/src/analyzer/typedDicts.ts): entry           *)
(* resolution with its memoized table, structural assignability,           *)
(* construction from keys and values, subscript access and narrowing on    *)
(* key assignment; and of the recursion-safe type walker (typeWalker.ts).  *)
(*                                                                         *)
(* Class declarations (ClassType.details) are identified by small          *)
(* integers; type objects (ClassType instances, with their narrowed        *)
(* overlay) live in the sequence objs and are identified by their index,   *)
(* so that "the same object" and "a new clone" can be told apart.          *)
(* A Map<string, TypedDictEntry> is a sequence of entries in insertion     *)
(* order, each carrying its key in the field name.                         *)
(***************************************************************************)
EXTENDS Integers, Sequences, FiniteSets, TLC

VARIABLES
    details,            \* class id -> declaration (flags, baseClasses, fields)
    typedDictEntries,   \* class id -> memoized table (details.typedDictEntries)
    objs,               \* the type objects created so far
    mergeRuns,          \* class id -> number of merges started at the cache miss
    memo,               \* the first getTypedDictMembersForClass call and its table
    ret,                \* the last call: operation, arguments and result
    walker,             \* the fields of a TypeWalker
    frames,             \* the call stack of the walk in progress
    history,            \* what the walker did: hooks dispatched, entries past the limit
    sinks,              \* the DiagnosticSink objects created so far
    arrays              \* the Diagnostic[] arrays that the sinks refer to

vars ==
    <<details, typedDictEntries, objs, mergeRuns, memo, ret, walker, frames, history,
      sinks, arrays>>

\* The state of the TypedDict functions and the state of the type walker.
typedDictVars == <<details, typedDictEntries, objs, mergeRuns, memo, ret>>

walkerVars == <<walker, frames, history>>

\* The state of the diagnostic sinks.
sinkVars == <<sinks, arrays>>

(***************************************************************************)
(* Bounds of the model.                                                    *)
(***************************************************************************)
\* Number of type objects that may be cloned on top of the declared ones.
MaxClones == 2
\* Longest key/value list passed to assignToTypedDict.
MaxKeys == 2
\* The count of merges per class is recorded up to this value.
MaxMergeRuns == 2

\* The most entries of a dictionary expression and the most keyword
\* arguments of a call of TypedDict.
MaxEntries == 3
\* Number of diagnostics up to which the sinks, taken together, are added
\* to; a copy of a sink holds what the sink holds.
MaxDiags == 3
\* Number of walks one TypeWalker is used for.
MaxWalks == 2
\* Depth of the call stack of a walk; the walker never needs more than
\* maxTypeRecursionCount + 2 frames.
MaxStack == 24

(***************************************************************************)
(* maxTypeRecursionCount is imported from ./types, where it is 20.         *)
(***************************************************************************)
maxTypeRecursionCount == 20

\* The declared classes of the analysis run.
ClassIds == DOMAIN details

(***************************************************************************)
(* Value types: a small lattice bool <: int <: object, str <: object,      *)
(* Never below everything; Any and Unknown are compatible with everything. *)
(***************************************************************************)
ValueTypes == {"bool", "int", "str", "object", "Never", "Any", "Unknown"}

\* isAnyOrUnknown
isAnyOrUnknown(type) == type \in {"Any", "Unknown"}

IsSubtype(src, dest) ==
    \/ src = dest
    \/ dest = "object"
    \/ src = "Never"
    \/ (src = "bool" /\ dest = "int")

\* evaluator.assignType(dest, src, ..., flags): with EnforceInvariance the
\* two types must be the same, otherwise src must be assignable to dest.
assignType(destType, srcType, enforceInvariance) ==
    IF isAnyOrUnknown(destType) \/ isAnyOrUnknown(srcType) THEN TRUE
    ELSE IF enforceInvariance THEN destType = srcType
    ELSE IsSubtype(srcType, destType)

\* evaluator.getObjectType()
getObjectType == "object"

\* NeverType.createNever()
createNever == "Never"

\* buildTypeVarContextFromSpecializedClass: the classes of the model have
\* no type parameters, so the context solves no type variable.
buildTypeVarContextFromSpecializedClass(classId) == [tv \in {} |-> "object"]

\* applySolvedTypeVars: replaces a solved type variable by its solution.
applySolvedTypeVars(valueType, typeVarContext) ==
    IF valueType \in DOMAIN typeVarContext THEN typeVarContext[valueType] ELSE valueType

(***************************************************************************)
(* Map<string, TypedDictEntry> as an insertion-ordered sequence.           *)
(***************************************************************************)
MapHas(m, key) == \E i \in 1..Len(m) : m[i].name = key

MapIndex(m, key) == CHOOSE i \in 1..Len(m) : m[i].name = key

MapGet(m, key) == m[MapIndex(m, key)]

\* Map.set: an existing key keeps its position, a new key is appended.
MapSet(m, e) ==
    IF MapHas(m, e.name)
    THEN [m EXCEPT ![MapIndex(m, e.name)] = e]
    ELSE Append(m, e)

MapKeys(m) == {m[i].name : i \in 1..Len(m)}

RECURSIVE MapSetAll(_, _)
\* forEach over src in insertion order, setting each entry in m.
MapSetAll(m, src) ==
    IF src = <<>> THEN m ELSE MapSetAll(MapSet(m, Head(src)), Tail(src))

Entry(name, valueType, isReadOnly, isRequired, isProvided) ==
    [name |-> name, valueType |-> valueType, isReadOnly |-> isReadOnly,
     isRequired |-> isRequired, isProvided |-> isProvided]

(***************************************************************************)
(* Symbols and declarations of a class body.                               *)
(***************************************************************************)
Modifiers == {"none", "Required", "NotRequired"}

\* A variable declaration "name: annotation".
VarDecl(valueType, modifier, readOnly) ==
    [type |-> "Variable", typeAnnotationNode |-> TRUE, valueType |-> valueType,
     isRequired |-> (modifier = "Required"),
     isNotRequired |-> (modifier = "NotRequired"),
     isReadOnly |-> readOnly]

\* A method declared in the class body.
FuncDecl ==
    [type |-> "Function", typeAnnotationNode |-> FALSE, valueType |-> "object",
     isRequired |-> FALSE, isNotRequired |-> FALSE, isReadOnly |-> FALSE]

Field(name, ignored, decls) ==
    [name |-> name, symbol |-> [ignoredForProtocolMatch |-> ignored, decls |-> decls]]

VarField(name, valueType, modifier, readOnly) ==
    Field(name, FALSE, <<VarDecl(valueType, modifier, readOnly)>>)

ClassDetails(isTypedDict, canOmit, bases, fields) ==
    [isTypedDictClass |-> isTypedDict, canOmitDictValues |-> canOmit,
     baseClasses |-> bases, fields |-> fields]

\* symbol.isIgnoredForProtocolMatch()
isIgnoredForProtocolMatch(symbol) == symbol.ignoredForProtocolMatch

\* getLastTypedDeclaredForSymbol: the last declaration that carries type
\* information (an annotated variable, or a function); "none" if there is none.
HasTypeForDeclaration(decl) == decl.type = "Function" \/ decl.typeAnnotationNode

getLastTypedDeclaredForSymbol(symbol) ==
    LET typed == {i \in 1..Len(symbol.decls) : HasTypeForDeclaration(symbol.decls[i])}
    IN  IF typed = {} THEN [type |-> "none"]
        ELSE symbol.decls[CHOOSE i \in typed : \A j \in typed : j <= i]

\* evaluator.getEffectiveTypeOfSymbol: the declared type of the symbol.
getEffectiveTypeOfSymbol(symbol) == getLastTypedDeclaredForSymbol(symbol).valueType

isRequiredTypedDictVariable(symbol) ==
    \E i \in 1..Len(symbol.decls) :
        /\ symbol.decls[i].type = "Variable"
        /\ symbol.decls[i].typeAnnotationNode
        /\ symbol.decls[i].isRequired

isNotRequiredTypedDictVariable(symbol) ==
    \E i \in 1..Len(symbol.decls) :
        /\ symbol.decls[i].type = "Variable"
        /\ symbol.decls[i].typeAnnotationNode
        /\ symbol.decls[i].isNotRequired

isReadOnlyTypedDictVariable(symbol) ==
    \E i \in 1..Len(symbol.decls) :
        /\ symbol.decls[i].type = "Variable"
        /\ symbol.decls[i].typeAnnotationNode
        /\ symbol.decls[i].isReadOnly

(***************************************************************************)
(* Entry resolution: the inheritance merge.                                *)
(***************************************************************************)
\* Whether a member of the class body becomes an entry.
IsEntrySymbol(symbol) ==
    /\ ~isIgnoredForProtocolMatch(symbol)
    /\ getLastTypedDeclaredForSymbol(symbol).type = "Variable"

\* A variant in which the Required and NotRequired modifiers are not looked at.
OwnEntryIgnoringModifiers(classId, field) ==
    Entry(field.name, getEffectiveTypeOfSymbol(field.symbol),
          isReadOnlyTypedDictVariable(field.symbol),
          ~details[classId].canOmitDictValues, FALSE)

\* The entry built for one field of classId (lines 852-873).
OwnEntry(classId, field) ==
    LET symbol == field.symbol
        valueType == applySolvedTypeVars(getEffectiveTypeOfSymbol(symbol),
                                         buildTypeVarContextFromSpecializedClass(classId))
        isRequired == IF isRequiredTypedDictVariable(symbol) THEN TRUE
                      ELSE IF isNotRequiredTypedDictVariable(symbol) THEN FALSE
                      ELSE ~details[classId].canOmitDictValues
    IN  Entry(field.name, valueType, isReadOnlyTypedDictVariable(symbol), isRequired, FALSE)

RECURSIVE AddOwnFields(_, _, _)
\* classType.details.fields.forEach(...): adds the entries of the class itself.
AddOwnFields(classId, fields, keyMap) ==
    IF fields = <<>> THEN keyMap
    ELSE AddOwnFields(classId, Tail(fields),
                      IF IsEntrySymbol(Head(fields).symbol)
                      THEN MapSet(keyMap, OwnEntry(classId, Head(fields)))
                      ELSE keyMap)

RECURSIVE getTypedDictMembersForClassRecursive(_, _, _)
RECURSIVE MergeBaseClasses(_, _, _)

\* classType.details.baseClasses.forEach(...): the typed dict bases, in order.
MergeBaseClasses(bases, keyMap, recursionCount) ==
    IF bases = <<>> THEN keyMap
    ELSE MergeBaseClasses(Tail(bases),
                          IF details[Head(bases)].isTypedDictClass
                          THEN getTypedDictMembersForClassRecursive(Head(bases), keyMap, recursionCount)
                          ELSE keyMap,
                          recursionCount)

\* A variant that adds the fields of the class before those of its bases.
getTypedDictMembersForClassRecursiveOwnFirst(classId, keyMap, recursionCount) ==
    IF recursionCount > maxTypeRecursionCount THEN keyMap
    ELSE MergeBaseClasses(details[classId].baseClasses,
                          AddOwnFields(classId, details[classId].fields, keyMap),
                          recursionCount + 1)

\* A variant in which exceeding the limit fails the whole resolution: the
\* entries collected so far are dropped.
getTypedDictMembersForClassRecursiveOrFail(classId, keyMap, recursionCount) ==
    IF recursionCount > maxTypeRecursionCount THEN <<>>
    ELSE LET afterBases ==
                 MergeBaseClasses(details[classId].baseClasses, keyMap, recursionCount + 1)
         IN  IF afterBases = <<>>
             THEN AddOwnFields(classId, details[classId].fields, <<>>)
             ELSE AddOwnFields(classId, details[classId].fields, afterBases)

\* Lines 821-877. The bases are merged (line 833) before the fields of the
\* class are added (line 848): afterBases is the keyMap between the two.
getTypedDictMembersForClassRecursive(classId, keyMap, recursionCount) ==
    IF recursionCount > maxTypeRecursionCount THEN keyMap
    ELSE LET afterBases ==
                 MergeBaseClasses(details[classId].baseClasses, keyMap, recursionCount + 1)
         IN  IF afterBases = <<>>
             THEN AddOwnFields(classId, details[classId].fields, <<>>)
             ELSE AddOwnFields(classId, details[classId].fields, afterBases)

(***************************************************************************)
(* getTypedDictMembersForClass: the memoized table and its per-call copy.  *)
(* cache is the value of details.typedDictEntries for every class.         *)
(***************************************************************************)
NotCached == [cached |-> FALSE, entries |-> <<>>]

\* A variant that takes every call for a cache miss.
CacheMissAlways(cache, classId) == TRUE

\* Line 703: were the entries already calculated and cached?
CacheMiss(cache, classId) == ~cache[classId].cached

\* Lines 703-709: the merge runs on a cache miss and its table is stored.
CacheAfterResolve(cache, classId) ==
    IF CacheMiss(cache, classId)
    THEN [cache EXCEPT ![classId] =
             [cached |-> TRUE,
              entries |-> getTypedDictMembersForClassRecursive(classId, <<>>, 0)]]
    ELSE cache

\* Counts the merges started at line 705.
MergeRunsAfter(runs, cache, classId) ==
    IF CacheMiss(cache, classId) /\ runs[classId] < MaxMergeRuns
    THEN [runs EXCEPT ![classId] = @ + 1]
    ELSE runs

\* A variant that hands out the entries of a partial view as declared.
SpecializeEntryAsDeclared(obj, value) ==
    [value EXCEPT !.valueType =
        applySolvedTypeVars(value.valueType,
                            buildTypeVarContextFromSpecializedClass(obj.details))]

\* Lines 716-729: the copy of one memoized entry handed to the caller.
SpecializeEntry(obj, value) ==
    LET tdEntry == [value EXCEPT !.valueType =
                        applySolvedTypeVars(value.valueType,
                            buildTypeVarContextFromSpecializedClass(obj.details))]
    IN  IF obj.isTypedDictPartial
        THEN IF tdEntry.isReadOnly
             THEN [tdEntry EXCEPT !.isRequired = FALSE, !.valueType = createNever]
             ELSE [tdEntry EXCEPT !.isRequired = FALSE, !.isReadOnly = TRUE]
        ELSE tdEntry

\* Lines 736-740: the copy of one narrowed entry.
SpecializeNarrowedEntry(obj, value) ==
    [value EXCEPT !.valueType =
        applySolvedTypeVars(value.valueType,
                            buildTypeVarContextFromSpecializedClass(obj.details))]

\* A variant that applies the narrowed entries whether asked for or not.
getTypedDictMembersForClassNarrowedAlways(cache, obj, allowNarrowed) ==
    LET canonical == cache[obj.details].entries
        entries == [i \in 1..Len(canonical) |-> SpecializeEntry(obj, canonical[i])]
    IN  IF obj.narrowed.has
        THEN MapSetAll(entries,
                 [i \in 1..Len(obj.narrowed.map) |->
                     SpecializeNarrowedEntry(obj, obj.narrowed.map[i])])
        ELSE entries

\* Lines 711-743, given the cache after lines 703-709.
getTypedDictMembersForClass(cache, obj, allowNarrowed) ==
    LET canonical == cache[obj.details].entries
        entries == [i \in 1..Len(canonical) |-> SpecializeEntry(obj, canonical[i])]
    IN  IF allowNarrowed /\ obj.narrowed.has
        THEN MapSetAll(entries,
                 [i \in 1..Len(obj.narrowed.map) |->
                     SpecializeNarrowedEntry(obj, obj.narrowed.map[i])])
        ELSE entries

\* A variant in which the caller is handed the memoized entries themselves.
ReturnedEntriesAreTheCached == TRUE

\* { ...value } at line 716 makes every returned entry a fresh object: a
\* write to a returned entry does not reach the memoized entry.
ReturnedEntriesAliasCache == FALSE

(***************************************************************************)
(* Type objects.                                                           *)
(***************************************************************************)
NoNarrowedEntries == [has |-> FALSE, map |-> <<>>]

TypeObject(classId) ==
    [details |-> classId, narrowed |-> NoNarrowedEntries, isTypedDictPartial |-> FALSE]

\* ClassType.cloneForNarrowedTypedDictEntries
cloneForNarrowedTypedDictEntries(obj, narrowedEntries) ==
    [obj EXCEPT !.narrowed = [has |-> TRUE, map |-> narrowedEntries]]

\* ClassType.cloneForPartialTypedDict: a copy of the type marked as a
\* partial view.
cloneForPartialTypedDict(obj) == [obj EXCEPT !.isTypedDictPartial = TRUE]

ObjIds == 1..Len(objs)

\* The type objects made by cloneForNarrowedTypedDictEntries.
Clones == {i \in ObjIds : objs[i].narrowed.has}

\* Room for one more clone within the bound of the model.
CanClone == Cardinality(Clones) < MaxClones

isTypedDictClass(obj) == details[obj.details].isTypedDictClass

(***************************************************************************)
(* The class declarations an analysis run may start from.                  *)
(***************************************************************************)
\* An inheritance chain 4 -> 3 -> 2 -> 1: omit1 is the totality of classes 1
\* and 3, omit2 of classes 2 and 4.
ChainTable(omit1, omit2, modifier) ==
    [c \in 1..4 |->
        CASE c = 1 -> ClassDetails(TRUE, omit1, <<>>,
                        <<VarField("a", "int", modifier, FALSE),
                          VarField("b", "str", "none", FALSE),
                          Field("f", FALSE, <<FuncDecl>>)>>)
          [] c = 2 -> ClassDetails(TRUE, omit2, <<1>>,
                        <<VarField("c", "bool", modifier, TRUE)>>)
          [] c = 3 -> ClassDetails(TRUE, omit1, <<2>>,
                        <<VarField("a", "bool", "none", FALSE),
                          Field("g", TRUE, <<VarDecl("int", "none", FALSE)>>)>>)
          [] c = 4 -> ClassDetails(TRUE, omit2, <<3>>,
                        <<Field("d", FALSE, <<VarDecl("int", "Required", FALSE),
                                              VarDecl("int", "NotRequired", FALSE)>>)>>)]

ChainTables ==
    {ChainTable(o1, o2, m) : o1 \in BOOLEAN, o2 \in BOOLEAN, m \in Modifiers}

\* The declaration of field k in a class of a pair table.
KeySpec(present, valueType, required, readOnly) ==
    [present |-> present, valueType |-> valueType, required |-> required,
     readOnly |-> readOnly]

KeyField(spec) ==
    IF spec.present
    THEN <<VarField("k", spec.valueType,
                    IF spec.required THEN "none" ELSE "NotRequired", spec.readOnly)>>
    ELSE <<>>

\* Two total classes 1 and 2 with a required field x and a field k each, a
\* non-total class 3 deriving from both, and a class 4 that is no TypedDict.
PairTable(destKey, srcKey) ==
    [c \in 1..4 |->
        CASE c = 1 -> ClassDetails(TRUE, FALSE, <<>>,
                        <<VarField("x", "int", "none", FALSE)>> \o KeyField(destKey))
          [] c = 2 -> ClassDetails(TRUE, FALSE, <<>>,
                        <<VarField("x", "int", "none", FALSE)>> \o KeyField(srcKey))
          [] c = 3 -> ClassDetails(TRUE, TRUE, <<1, 2>>,
                        <<VarField("m", "str", "none", FALSE)>>)
          [] c = 4 -> ClassDetails(FALSE, FALSE, <<>>,
                        <<VarField("k", "int", "none", FALSE)>>)]

DestKeySpecs ==
    {KeySpec(TRUE, "int", rq, ro) : rq \in BOOLEAN, ro \in BOOLEAN}
        \cup {KeySpec(TRUE, "object", FALSE, TRUE)}

SrcKeySpecs ==
    {KeySpec(TRUE, t, rq, ro) : t \in {"bool", "int"}, rq \in BOOLEAN, ro \in BOOLEAN}
        \cup {KeySpec(FALSE, "int", FALSE, FALSE)}

PairTables == {PairTable(d, s) : d \in DestKeySpecs, s \in SrcKeySpecs}

\* A chain DeepLen -> ... -> 2 -> 1 in which class 1 lies one level deeper
\* than the merge started at the last class descends. Class 1 declares b,
\* class 2 declares a, the last class redeclares a.
DeepLen == maxTypeRecursionCount + 2

DeepChainTable ==
    [c \in 1..DeepLen |->
        ClassDetails(TRUE, FALSE, IF c = 1 THEN <<>> ELSE <<c - 1>>,
            CASE c = 1 -> <<VarField("b", "str", "none", FALSE)>>
              [] c = 2 -> <<VarField("a", "int", "NotRequired", FALSE)>>
              [] c = DeepLen -> <<VarField("a", "bool", "none", TRUE)>>
              [] OTHER -> <<>>)]

\* The classes of the deep chain that the caller holds a type object of.
DeepRoots == <<1, 2, DeepLen - 1, DeepLen>>

(***************************************************************************)
(* Initial states.                                                         *)
(***************************************************************************)
\* A TypeWalker after construction (part_001, lines 30-32).
NewTypeWalker ==
    [recursionCount |-> 0, isWalkCanceled |-> FALSE, hitRecursionLimit |-> FALSE]

\* Nothing walked yet: log is the sequence of hooks dispatched and of entries
\* refused past the limit in the current walk, root the type it started from.
NoHistory ==
    [log |-> <<>>, root |-> 0, walks |-> 0, pastLimit |-> FALSE, cancelCalled |-> FALSE,
     canceledAfter |-> FALSE]

\* One type object for each class of roots (all classes when roots is empty).
InitWith(tables, roots) ==
    /\ details \in tables
    /\ typedDictEntries = [c \in ClassIds |-> NotCached]
    /\ objs = IF roots = <<>> THEN [c \in ClassIds |-> TypeObject(c)]
              ELSE [i \in 1..Len(roots) |-> TypeObject(roots[i])]
    /\ mergeRuns = [c \in ClassIds |-> 0]
    /\ memo = [set |-> FALSE]
    /\ ret = [op |-> "none"]
    /\ walker = NewTypeWalker
    /\ frames = <<>>
    /\ history = NoHistory
    /\ sinks = <<>>
    /\ arrays = <<>>

(***************************************************************************)
(* Action: getTypedDictMembersForClass(classType, allowNarrowed).          *)
(***************************************************************************)
GetTypedDictMembersForClass(o, allowNarrowed) ==
    LET obj == objs[o]
        cache == CacheAfterResolve(typedDictEntries, obj.details)
        entries == getTypedDictMembersForClass(cache, obj, allowNarrowed)
    IN  /\ isTypedDictClass(obj)
        /\ typedDictEntries' = cache
        /\ mergeRuns' = MergeRunsAfter(mergeRuns, typedDictEntries, obj.details)
        /\ memo' = IF memo.set THEN memo
                   ELSE [set |-> TRUE, obj |-> o, allowNarrowed |-> allowNarrowed,
                         entries |-> entries]
        /\ ret' = [op |-> "getTypedDictMembersForClass", obj |-> o,
                   allowNarrowed |-> allowNarrowed, entries |-> entries,
                   again |-> (memo.set /\ memo.obj = o /\ memo.allowNarrowed = allowNarrowed)]
        /\ UNCHANGED <<details, objs>>

(***************************************************************************)
(* synthesizeTypedDictClassMethods(classType, isClassFinal).               *)
(***************************************************************************)
\* Lines 316-341: no entry of the class is required.
allEntriesAreNotRequired(entries) == \A i \in 1..Len(entries) : ~entries[i].isRequired

\* Lines 317-341: no entry of the class is writable.
allEntriesAreReadOnly(entries) == \A i \in 1..Len(entries) : entries[i].isReadOnly

\* Lines 346-697: the names set in the symbol table of the class, in order.
SynthesizedMethods(entries, isClassFinal) ==
    <<"__init__", "__new__", "get">>
        \o (IF \E i \in 1..Len(entries) : ~entries[i].isRequired /\ ~entries[i].isReadOnly
            THEN <<"pop">> ELSE <<>>)
        \o (IF \E i \in 1..Len(entries) : ~entries[i].isReadOnly
            THEN <<"setdefault">> ELSE <<>>)
        \o (IF ~allEntriesAreReadOnly(entries) THEN <<"__delitem__">> ELSE <<>>)
        \o <<"update">>
        \o (IF isClassFinal /\ allEntriesAreNotRequired(entries)
                 /\ ~allEntriesAreReadOnly(entries)
            THEN <<"clear", "popitem">> ELSE <<>>)

\* Symbol.createWithType(SymbolFlags.ClassMember, type): a symbol with a
\* synthesized type and no declaration.
MethodSymbols(names) == [i \in 1..Len(names) |-> Field(names[i], FALSE, <<>>)]

\* The whole function: the entries are resolved (line 315), the methods are
\* set in the symbol table of the class, and the parameter __m of update()
\* is Never if every entry is read-only, else a partial view of the class
\* (lines 515-522; updateParameter 0 stands for Never). call is the record
\* of the call that the outcome is added to.
SynthesizeTypedDictClassMethods(o, isClassFinal, call) ==
    LET classType == objs[o]
        cache == CacheAfterResolve(typedDictEntries, classType.details)
        entries == getTypedDictMembersForClass(cache, classType, FALSE)
        never == allEntriesAreReadOnly(entries)
        methods == SynthesizedMethods(entries, isClassFinal)
    IN  /\ isTypedDictClass(classType)
        /\ typedDictEntries' = cache
        /\ mergeRuns' = MergeRunsAfter(mergeRuns, typedDictEntries, classType.details)
        /\ details' = [details EXCEPT ![classType.details].fields =
                           MapSetAll(@, MethodSymbols(methods))]
        /\ objs' = IF never THEN objs
                   ELSE Append(objs, cloneForPartialTypedDict(classType))
        /\ ret' = [f \in DOMAIN call \cup {"isClassFinal", "entries", "methods", "updateParameter"} |->
                      CASE f = "isClassFinal" -> isClassFinal
                        [] f = "entries" -> entries
                        [] f = "methods" -> methods
                        [] f = "updateParameter" -> IF never THEN 0 ELSE Len(objs) + 1
                        [] OTHER -> call[f]]
        /\ UNCHANGED memo

(***************************************************************************)
(* createTypedDictType(errorNode, typedDictClass, argList) and             *)
(* createTypedDictTypeInlined(dictNode, typedDictClass).                   *)
(* An argument has a category, a name ("" if it has none) and a value      *)
(* expression; an expression node has a nodeType and, by type, the joined  *)
(* value of a string list, the value of a name or the constType of a       *)
(* constant (value), the entries of a dictionary, or the declaration that  *)
(* a type expression stands for (decl).                                    *)
(***************************************************************************)
Arg(argumentCategory, name, valueExpression) ==
    [argumentCategory |-> argumentCategory, name |-> name,
     valueExpression |-> valueExpression]

Node(nodeType, value) == [nodeType |-> nodeType, value |-> value]

\* A type expression: the declaration made from it has this declared type
\* and these Required / NotRequired / ReadOnly wrappers.
TypeNode(valueType, modifier, readOnly) ==
    [nodeType |-> "TypeAnnotation", decl |-> VarDecl(valueType, modifier, readOnly)]

DictionaryNode(entries) == [nodeType |-> "Dictionary", entries |-> entries]

DictEntry(nodeType, keyExpression, valueExpression) ==
    [nodeType |-> nodeType, keyExpression |-> keyExpression,
     valueExpression |-> valueExpression]

\* evaluator.addDiagnostic(reportGeneralTypeIssues, message, node): the node
\* is errorNode, the value of argument index, or entry index of the dict
\* (its key for the messages about the key).
Diag(message, node, index) == [message |-> message, node |-> node, index |-> index]

\* A variant that never takes a name for a repetition.
EntryIsRepeatedNever(entrySet, name) == FALSE

\* Lines 145 and 784: the name was met before.
EntryIsRepeated(entrySet, name) == name \in entrySet

\* Lines 155-171 and 795-811: the symbol of a field, with one variable
\* declaration whose typeAnnotationNode is the value expression.
FieldSymbol(name, valueExpression) == Field(name, FALSE, <<valueExpression.decl>>)

RECURSIVE getTypedDictFieldsFromDictSyntax(_, _, _)
\* Lines 755-814, from entry i on: acc holds classFields, entrySet and the
\* diagnostics added so far.
getTypedDictFieldsFromDictSyntax(entries, i, acc) ==
    IF i > Len(entries) THEN acc
    ELSE LET entry == entries[i]
             entryName == entry.keyExpression.value
         IN  getTypedDictFieldsFromDictSyntax(entries, i + 1,
                 IF entry.nodeType # "DictionaryKeyEntry"
                 THEN [acc EXCEPT !.diag = Append(@, Diag("typedDictSecondArgDictEntry", "entry", i))]
                 ELSE IF entry.keyExpression.nodeType # "StringList"
                 THEN [acc EXCEPT !.diag = Append(@, Diag("typedDictEntryName", "entry", i))]
                 ELSE IF entryName = ""
                 THEN [acc EXCEPT !.diag = Append(@, Diag("typedDictEmptyName", "entry", i))]
                 ELSE IF EntryIsRepeated(acc.entrySet, entryName)
                 THEN [acc EXCEPT !.diag = Append(@, Diag("typedDictEntryUnique", "entry", i))]
                 ELSE [classFields |-> MapSet(acc.classFields,
                                              FieldSymbol(entryName, entry.valueExpression)),
                       entrySet |-> acc.entrySet \cup {entryName},
                       diag |-> acc.diag])

RECURSIVE KeywordFields(_, _, _)
\* Lines 141-176: the loop over the arguments after the first, from
\* argument i on.
KeywordFields(argList, i, acc) ==
    IF i > Len(argList) THEN acc
    ELSE LET entry == argList[i]
         IN  KeywordFields(argList, i + 1,
                 IF entry.name = "" \/ entry.valueExpression.nodeType = "none"
                 THEN acc
                 ELSE IF EntryIsRepeated(acc.entrySet, entry.name)
                 THEN [acc EXCEPT !.diag = Append(@, Diag("typedDictEntryUnique", "arg", i))]
                 ELSE [classFields |-> MapSet(acc.classFields,
                                              FieldSymbol(entry.name, entry.valueExpression)),
                       entrySet |-> acc.entrySet \cup {entry.name},
                       diag |-> acc.diag])

\* Lines 196 and 205: the diagnostic is reported on arg.valueExpression ||
\* errorNode, that is on the call where argument i has no value expression.
DiagOnValue(message, arg, i) ==
    IF arg.valueExpression.nodeType = "none"
    THEN Diag(message, "errorNode", 0)
    ELSE Diag(message, "arg", i)

RECURSIVE ExtraArgs(_, _, _)
\* Lines 185-209: the arguments after the dictionary, from argument i on;
\* acc holds canOmitDictValues and the diagnostics.
ExtraArgs(argList, i, acc) ==
    IF i > Len(argList) THEN acc
    ELSE LET arg == argList[i]
         IN  ExtraArgs(argList, i + 1,
                 IF arg.name = "total"
                 THEN IF \/ arg.valueExpression.nodeType = "none"
                         \/ arg.valueExpression.nodeType # "Constant"
                         \/ arg.valueExpression.value \notin {"False", "True"}
                      THEN [acc EXCEPT !.diag =
                                Append(@, DiagOnValue("typedDictBoolParam", arg, i))]
                      ELSE IF arg.valueExpression.value = "False"
                      THEN [acc EXCEPT !.canOmitDictValues = TRUE]
                      ELSE acc
                 ELSE [acc EXCEPT !.diag =
                           Append(@, DiagOnValue("typedDictExtraArgs", arg, i))])

\* Lines 81-98: the class name taken from the first argument; has is FALSE
\* where className stays undefined.
ClassNameOf(argList) ==
    IF Len(argList) = 0
    THEN [has |-> FALSE, value |-> "", diag |-> <<Diag("typedDictFirstArg", "errorNode", 0)>>]
    ELSE LET nameArg == argList[1]
         IN  IF \/ nameArg.argumentCategory # "Simple"
                \/ nameArg.valueExpression.nodeType = "none"
                \/ nameArg.valueExpression.nodeType # "StringList"
             THEN [has |-> FALSE, value |-> "",
                   diag |-> <<IF nameArg.valueExpression.nodeType = "none"
                              THEN Diag("typedDictFirstArg", "errorNode", 0)
                              ELSE Diag("typedDictFirstArg", "arg", 1)>>]
             ELSE [has |-> TRUE, value |-> nameArg.valueExpression.value, diag |-> <<>>]

\* className as a condition (lines 100 and 215): undefined and the empty
\* string are falsy.
Truthy(className) == className.has /\ className.value # ""

\* Lines 117-183: the fields declared by the second argument or by the
\* keyword arguments, after the __class__ symbol of line 113.
ClassFieldsOf(argList) ==
    LET start == [classFields |-> <<Field("__class__", TRUE, <<>>)>>, entrySet |-> {},
                  diag |-> <<>>]
        secondArgDict == [start EXCEPT !.diag = <<Diag("typedDictSecondArgDict", "errorNode", 0)>>]
        usingDictSyntax ==
            /\ Len(argList) >= 2
            /\ argList[2].argumentCategory = "Simple"
            /\ argList[2].valueExpression.nodeType = "Dictionary"
        fields == IF Len(argList) < 2 THEN secondArgDict
                  ELSE IF usingDictSyntax
                  THEN getTypedDictFieldsFromDictSyntax(argList[2].valueExpression.entries, 1, start)
                  ELSE IF argList[2].name # "" THEN KeywordFields(argList, 2, start)
                  ELSE secondArgDict
        extra == IF usingDictSyntax
                 THEN ExtraArgs(argList, 3, [canOmitDictValues |-> FALSE, diag |-> <<>>])
                 ELSE [canOmitDictValues |-> FALSE, diag |-> <<>>]
    IN  [classFields |-> fields.classFields, usingDictSyntax |-> usingDictSyntax,
         canOmitDictValues |-> extra.canOmitDictValues, diag |-> fields.diag \o extra.diag]

\* The class made by ClassType.createInstantiable joins the classes of the
\* program, with a type object of its own and no entries resolved yet.
ClassCreated(classDetails, call) ==
    /\ details' = Append(details, classDetails)
    /\ typedDictEntries' = Append(typedDictEntries, NotCached)
    /\ mergeRuns' = Append(mergeRuns, 0)
    /\ objs' = Append(objs, TypeObject(Len(details) + 1))
    /\ ret' = [f \in DOMAIN call \cup {"obj", "pc"} |->
                  CASE f = "obj" -> Len(objs) + 1
                    [] f = "pc" -> "synthesize"
                    [] OTHER -> call[f]]
    /\ UNCHANGED memo

\* createTypedDictType up to the call of line 211; target is the name the
\* call is assigned to ("" if it is not assigned to a name). The check of
\* lines 214-230 adds its diagnostic after that call, which adds none.
CreateTypedDictType(typedDictClass, argList, target) ==
    LET className == ClassNameOf(argList)
        effectiveClassName == IF Truthy(className) THEN className.value ELSE "TypedDict"
        fields == ClassFieldsOf(argList)
        assignedName == IF Truthy(className) /\ target # "" /\ target # className.value
                        THEN <<Diag("typedDictAssignedName", "target", 0)>>
                        ELSE <<>>
    IN  ClassCreated(ClassDetails(TRUE, fields.canOmitDictValues, <<typedDictClass>>,
                                  fields.classFields),
                     [op |-> "createTypedDictType", argList |-> argList, target |-> target,
                      name |-> effectiveClassName, isClassFinal |-> FALSE,
                      diag |-> className.diag \o fields.diag \o assignedName])

\* createTypedDictTypeInlined up to the call of line 257.
CreateTypedDictTypeInlined(typedDictClass, dictNode) ==
    LET fields == getTypedDictFieldsFromDictSyntax(dictNode.entries, 1,
                      [classFields |-> <<>>, entrySet |-> {}, diag |-> <<>>])
    IN  ClassCreated(ClassDetails(TRUE, FALSE, <<typedDictClass>>, fields.classFields),
                     [op |-> "createTypedDictTypeInlined", dictNode |-> dictNode,
                      name |-> "<TypedDict>", isClassFinal |-> TRUE, diag |-> fields.diag])

\* The call of synthesizeTypedDictClassMethods at lines 211 and 257, which
\* ends the creation.
SynthesizeCreated ==
    /\ ret.op \in {"createTypedDictType", "createTypedDictTypeInlined"}
    /\ ret.pc = "synthesize"
    /\ SynthesizeTypedDictClassMethods(ret.obj, ret.isClassFinal, [ret EXCEPT !.pc = "done"])

(***************************************************************************)
(* narrowForKeyAssignment(classType, key).                                 *)
(***************************************************************************)
\* A variant without the test of lines 1244-1247 for a key already provided.
NarrowReturnsInputUnlessProvided(cache, obj, key) ==
    \/ ~isTypedDictClass(obj)
    \/ ~cache[obj.details].cached
    \/ ~MapHas(cache[obj.details].entries, key)
    \/ MapGet(cache[obj.details].entries, key).isRequired

\* Lines 1235-1247: the cases in which the input type is returned as it is.
NarrowReturnsInput(cache, obj, key) ==
    \/ ~isTypedDictClass(obj)
    \/ ~cache[obj.details].cached
    \/ ~MapHas(cache[obj.details].entries, key)
    \/ MapGet(cache[obj.details].entries, key).isRequired
    \/ /\ obj.narrowed.has
       /\ MapHas(obj.narrowed.map, key)
       /\ MapGet(obj.narrowed.map, key).isProvided

\* Lines 1249-1257: a copy of the overlay with the key marked provided.
NarrowedEntriesForKey(cache, obj, key) ==
    LET tdEntry == MapGet(cache[obj.details].entries, key)
    IN  MapSet(IF obj.narrowed.has THEN obj.narrowed.map ELSE <<>>,
               Entry(key, tdEntry.valueType, tdEntry.isReadOnly, FALSE, TRUE))

\* A variant that sets the key in the overlay of the input type itself.
InputAfterNarrowInPlace(obj, narrowedEntries) ==
    IF obj.narrowed.has THEN [obj EXCEPT !.narrowed.map = narrowedEntries] ELSE obj

\* new Map(classType.typedDictNarrowedEntries) at line 1250 copies the
\* overlay, so the set at line 1252 leaves the input type as it was.
InputAfterNarrow(obj, narrowedEntries) == obj

NarrowForKeyAssignment(o, key) ==
    LET obj == objs[o]
        again == /\ ret.op = "narrowForKeyAssignment"
                 /\ ret.result = o
                 /\ ret.key = key
    IN  /\ IF NarrowReturnsInput(typedDictEntries, obj, key)
           THEN /\ objs' = objs
                /\ ret' = [op |-> "narrowForKeyAssignment", obj |-> o, key |-> key,
                           result |-> o, again |-> again]
           ELSE LET narrowedEntries == NarrowedEntriesForKey(typedDictEntries, obj, key)
                IN  /\ CanClone
                    /\ objs' = Append([objs EXCEPT ![o] = InputAfterNarrow(obj, narrowedEntries)],
                                      cloneForNarrowedTypedDictEntries(obj, narrowedEntries))
                    /\ ret' = [op |-> "narrowForKeyAssignment", obj |-> o, key |-> key,
                               result |-> Len(objs) + 1, again |-> again]
        /\ UNCHANGED <<details, typedDictEntries, mergeRuns, memo>>

(***************************************************************************)
(* assignTypedDictToTypedDict(destType, srcType, diag, flags).             *)
(***************************************************************************)
Message(text, name) == [text |-> text, name |-> name]

\* A variant that accepts a missing writable field that is not required.
MissingFieldIsErrorRequiredOnly(destEntry) == destEntry.isRequired

\* Line 895: a destination field the source lacks is an error unless it is
\* both not required and read-only.
MissingFieldIsError(destEntry) == destEntry.isRequired \/ ~destEntry.isReadOnly

\* A variant in which a read-only destination field does not tolerate a
\* requiredness mismatch.
RequirednessMismatchStrict(destEntry, srcEntry) ==
    destEntry.isRequired # srcEntry.isRequired

\* Line 927
RequirednessMismatch(destEntry, srcEntry) ==
    destEntry.isRequired # srcEntry.isRequired /\ ~destEntry.isReadOnly

\* Line 940
ReadOnlyMismatch(destEntry, srcEntry) == ~destEntry.isReadOnly /\ srcEntry.isReadOnly

\* AssignTypeFlags as the set of the flags that are set; of the flags only
\* EnforceInvariance changes what assignType of the model answers.
AssignFlags == {{}, {"EnforceInvariance"}}

\* assignType(dest, src, ..., flags) for a set of flags.
assignTypeWithFlags(destType, srcType, flags) ==
    assignType(destType, srcType, "EnforceInvariance" \in flags)

\* A variant that passes the flags of the caller as they are.
EnforceInvarianceNever(destEntry, flags) == flags

\* Lines 950-956: adjustedFlags starts from the flags of the caller and
\* carries EnforceInvariance for a writable field.
EnforceInvariance(destEntry, flags) ==
    IF ~destEntry.isReadOnly THEN flags \cup {"EnforceInvariance"} ELSE flags

\* Lines 893-972: the messages one destination field adds to the addendum;
\* the field is consistent when it adds none.
FieldMessages(destEntry, srcEntries, flags) ==
    IF ~MapHas(srcEntries, destEntry.name)
    THEN IF MissingFieldIsError(destEntry)
         THEN <<Message("typedDictFieldMissing", destEntry.name)>>
         ELSE IF ~assignTypeWithFlags(destEntry.valueType, getObjectType, flags)
              THEN <<Message("memberTypeMismatch", destEntry.name)>>
              ELSE <<>>
    ELSE LET srcEntry == MapGet(srcEntries, destEntry.name)
         IN  (IF RequirednessMismatch(destEntry, srcEntry)
              THEN <<Message(IF destEntry.isRequired THEN "typedDictFieldRequired"
                             ELSE "typedDictFieldNotRequired", destEntry.name)>>
              ELSE <<>>)
             \o (IF ReadOnlyMismatch(destEntry, srcEntry)
                 THEN <<Message("typedDictFieldNotReadOnly", destEntry.name)>>
                 ELSE <<>>)
             \o (IF ~assignTypeWithFlags(destEntry.valueType, srcEntry.valueType,
                                         EnforceInvariance(destEntry, flags))
                 THEN <<Message("memberTypeMismatch", destEntry.name)>>
                 ELSE <<>>)

RECURSIVE AllFieldMessages(_, _, _)
\* destEntries.forEach(...)
AllFieldMessages(destEntries, srcEntries, flags) ==
    IF destEntries = <<>> THEN <<>>
    ELSE FieldMessages(Head(destEntries), srcEntries, flags)
             \o AllFieldMessages(Tail(destEntries), srcEntries, flags)

AssignTypedDictToTypedDict(d, s, hasDiag, flags) ==
    LET destType == objs[d]
        srcType == objs[s]
        cache1 == CacheAfterResolve(typedDictEntries, destType.details)
        runs1 == MergeRunsAfter(mergeRuns, typedDictEntries, destType.details)
        destEntries == getTypedDictMembersForClass(cache1, destType, FALSE)
        cache2 == CacheAfterResolve(cache1, srcType.details)
        runs2 == MergeRunsAfter(runs1, cache1, srcType.details)
        srcEntries == getTypedDictMembersForClass(cache2, srcType, TRUE)
        messages == AllFieldMessages(destEntries, srcEntries, flags)
    IN  /\ isTypedDictClass(destType)
        /\ isTypedDictClass(srcType)
        /\ typedDictEntries' = cache2
        /\ mergeRuns' = runs2
        /\ ret' = [op |-> "assignTypedDictToTypedDict", dest |-> d, src |-> s,
                   hasDiag |-> hasDiag, flags |-> flags, destEntries |-> destEntries,
                   srcEntries |-> srcEntries,
                   result |-> (messages = <<>>),
                   diag |-> IF hasDiag THEN messages ELSE <<>>]
        /\ UNCHANGED <<details, objs, memo>>

(***************************************************************************)
(* assignToTypedDict(classType, keyTypes, valueTypes, diagAddendum).       *)
(* An item pairs keyTypes[i] with valueTypes[i]: the key is a str literal  *)
(* (isLiteral) with value key, or some other type.                         *)
(***************************************************************************)
Item(isLiteral, key, valueType, isReadOnly) ==
    [isLiteral |-> isLiteral, key |-> key, valueType |-> valueType,
     isReadOnly |-> isReadOnly]

\* A variant that records the key without marking it provided.
NarrowedEntryNotProvided(item) ==
    Entry(item.key, item.valueType, item.isReadOnly, FALSE, FALSE)

\* Lines 1064-1071: the narrowed entry recorded for a provided key.
NarrowedEntryForItem(item) ==
    Entry(item.key, item.valueType, item.isReadOnly, FALSE, TRUE)

\* A variant that records a narrowed entry for every provided key.
IsNarrowedOnAssignAlways(symbolEntry) == TRUE

\* Line 1064: a narrowed entry is recorded for the key of an entry that is
\* not required.
IsNarrowedOnAssign(symbolEntry) == ~symbolEntry.isRequired

\* Lines 1017-1075: the effect of one key on isMatch, symbolMap,
\* narrowedEntries and the addendum.
AssignKey(acc, item) ==
    IF ~item.isLiteral
    THEN [acc EXCEPT !.isMatch = FALSE]
    ELSE IF ~MapHas(acc.symbolMap, item.key)
    THEN [acc EXCEPT !.isMatch = FALSE,
                     !.diag = Append(@, Message("typedDictFieldUndefined", item.key))]
    ELSE LET symbolEntry == MapGet(acc.symbolMap, item.key)
             assignable == assignType(symbolEntry.valueType, item.valueType, FALSE)
         IN  [isMatch |-> acc.isMatch /\ assignable,
              symbolMap |-> MapSet(acc.symbolMap, [symbolEntry EXCEPT !.isProvided = TRUE]),
              narrowedEntries |-> IF IsNarrowedOnAssign(symbolEntry)
                                  THEN MapSet(acc.narrowedEntries, NarrowedEntryForItem(item))
                                  ELSE acc.narrowedEntries,
              diag |-> IF assignable THEN acc.diag
                       ELSE Append(acc.diag, Message("typedDictFieldTypeMismatch", item.key))]

RECURSIVE AssignKeys(_, _)
\* keyTypes.forEach(...)
AssignKeys(acc, items) ==
    IF items = <<>> THEN acc ELSE AssignKeys(AssignKey(acc, Head(items)), Tail(items))

\* A variant that reports a required entry only once it was provided.
MissingRequiredInverted(symbolMap) ==
    SelectSeq(symbolMap, LAMBDA entry : entry.isRequired /\ entry.isProvided)

\* Lines 1083-1095: the required entries that no key provided.
MissingRequired(symbolMap) ==
    SelectSeq(symbolMap, LAMBDA entry : entry.isRequired /\ ~entry.isProvided)

RECURSIVE RequiredMessages(_)
RequiredMessages(entries) ==
    IF entries = <<>> THEN <<>>
    ELSE <<Message("typedDictFieldRequired", Head(entries).name)>>
             \o RequiredMessages(Tail(entries))

\* The memoized table after the call: the writes of line 1073 go to the
\* entries of symbolMap, which reach the memoized entries only if the two
\* are the same objects.
CacheAfterProvided(cache, classId, symbolMap) ==
    IF ReturnedEntriesAliasCache
    THEN [cache EXCEPT ![classId].entries =
             [i \in 1..Len(@) |-> [@[i] EXCEPT !.isProvided = symbolMap[i].isProvided]]]
    ELSE cache

AssignToTypedDict(o, items, hasDiag) ==
    LET classType == objs[o]
        cache == CacheAfterResolve(typedDictEntries, classType.details)
        symbolMap == getTypedDictMembersForClass(cache, classType, FALSE)
        acc == AssignKeys([isMatch |-> TRUE, symbolMap |-> symbolMap,
                           narrowedEntries |-> <<>>, diag |-> <<>>], items)
        missing == MissingRequired(acc.symbolMap)
        isMatch == acc.isMatch /\ missing = <<>>
        diag == IF ~hasDiag THEN <<>>
                ELSE IF ~acc.isMatch THEN acc.diag
                ELSE acc.diag \o RequiredMessages(missing)
        cloned == isMatch /\ acc.narrowedEntries # <<>>
    IN  /\ isTypedDictClass(classType)
        /\ cloned => CanClone
        /\ typedDictEntries' = CacheAfterProvided(cache, classType.details, acc.symbolMap)
        /\ mergeRuns' = MergeRunsAfter(mergeRuns, typedDictEntries, classType.details)
        /\ objs' = IF cloned
                   THEN Append(objs, cloneForNarrowedTypedDictEntries(classType, acc.narrowedEntries))
                   ELSE objs
        /\ ret' = [op |-> "assignToTypedDict", obj |-> o, items |-> items,
                   hasDiag |-> hasDiag, symbolMap |-> symbolMap,
                   isMatch |-> isMatch,
                   result |-> IF ~isMatch THEN 0
                              ELSE IF cloned THEN Len(objs) + 1 ELSE o,
                   diag |-> diag]
        /\ UNCHANGED <<details, memo>>

(***************************************************************************)
(* getTypeOfIndexedTypedDict(node, baseType, usage).                       *)
(* node: the number of index items, the trailing comma, and for the first  *)
(* item whether it has a keyword name and whether it is a simple argument; *)
(* indexType: the subtypes of the type of the index expression;            *)
(* usage: the method, the type assigned by a set ("none" if absent) and    *)
(* the expected-type addendum ("none", "empty" or "nonempty").             *)
(***************************************************************************)
IndexNode(nItems, trailingComma, hasName, isSimple, inTry) ==
    [nItems |-> nItems, trailingComma |-> trailingComma, hasName |-> hasName,
     isSimple |-> isSimple, inTry |-> inTry]

\* A subtype of the index type: Any, Unknown, a str literal, str, or int.
IndexSubtype(kind, key) == [kind |-> kind, key |-> key]

Usage(method, setType, setExpectedTypeDiag) ==
    [method |-> method, setType |-> setType, setExpectedTypeDiag |-> setExpectedTypeDiag]

\* A variant that handles a subscript with a trailing comma.
UnsupportedSubscriptButComma(node) == node.hasName \/ ~node.isSimple

\* Line 1126: subscripts that are left to the generic indexing.
UnsupportedSubscript(node) == node.trailingComma \/ node.hasName \/ ~node.isSimple

\* A variant that never asks for the narrowed entries.
AllowNarrowedNever(usage) == FALSE

\* Line 1130: the narrowed entries are asked for by a get.
AllowNarrowedFor(usage) == usage.method = "get"

\* Line 1161.
NotRequiredAccess(entry, usage) ==
    ~(entry.isRequired \/ entry.isProvided) /\ usage.method = "get"

\* A variant that lets a del of a read-only key pass.
ReadOnlyAccessBySet(entry, usage) == entry.isReadOnly /\ usage.method = "set"

\* Line 1170.
ReadOnlyAccess(entry, usage) == entry.isReadOnly /\ usage.method # "get"

\* Lines 1138-1197: the type, the messages and the effect on
\* allDiagsInvolveNotRequiredKeys of one subtype of the index type.
IndexOneSubtype(entries, subtype, usage, inTry) ==
    IF isAnyOrUnknown(subtype.kind)
    THEN [type |-> subtype.kind, messages |-> <<>>, allNotRequired |-> TRUE]
    ELSE IF subtype.kind = "str"
    THEN [type |-> "Unknown", messages |-> <<>>, allNotRequired |-> TRUE]
    ELSE IF subtype.kind # "literal"
    THEN [type |-> "Unknown",
          messages |-> <<Message("typeNotStringLiteral", subtype.kind)>>,
          allNotRequired |-> FALSE]
    ELSE IF ~MapHas(entries, subtype.key)
    THEN [type |-> "Unknown",
          messages |-> <<Message("keyUndefined", subtype.key)>>,
          allNotRequired |-> FALSE]
    ELSE LET entry == MapGet(entries, subtype.key)
             first ==
                 IF NotRequiredAccess(entry, usage)
                 THEN IF ~inTry THEN <<Message("keyNotRequired", subtype.key)>> ELSE <<>>
                 ELSE IF ReadOnlyAccess(entry, usage)
                      THEN <<Message("keyReadOnly", subtype.key)>>
                      ELSE <<>>
             setFails ==
                 /\ usage.method = "set"
                 /\ ~assignType(entry.valueType,
                                IF usage.setType = "none" THEN "Any" ELSE usage.setType,
                                FALSE)
             delRequired == usage.method = "del" /\ entry.isRequired
         IN  [type |-> entry.valueType,
              messages |-> first
                  \o (IF setFails THEN <<Message("typeAssignmentMismatch", subtype.key)>>
                      ELSE <<>>)
                  \o (IF delRequired THEN <<Message("keyRequiredDeleted", subtype.key)>>
                      ELSE <<>>),
              allNotRequired |-> ~setFails /\ ~delRequired]

RECURSIVE IndexSubtypes(_, _, _, _)
\* mapSubtypes(indexType, ...): the subtypes in order.
IndexSubtypes(entries, indexType, usage, inTry) ==
    IF indexType = <<>>
    THEN [types |-> <<>>, messages |-> <<>>, allNotRequired |-> TRUE]
    ELSE LET one == IndexOneSubtype(entries, Head(indexType), usage, inTry)
             rest == IndexSubtypes(entries, Tail(indexType), usage, inTry)
         IN  [types |-> <<one.type>> \o rest.types,
              messages |-> one.messages \o rest.messages,
              allNotRequired |-> one.allNotRequired /\ rest.allNotRequired]

\* Lines 1207-1224: the diagnostic reported for a non-empty addendum.
IndexDiagnostic(usage, mapped) ==
    IF mapped.messages = <<>> THEN <<>>
    ELSE <<[rule |-> IF mapped.allNotRequired THEN "reportTypedDictNotRequiredAccess"
                     ELSE "reportGeneralTypeIssues",
            message |-> IF usage.method = "set" THEN "typedDictSet"
                        ELSE IF usage.method = "del" THEN "typedDictDelete"
                        ELSE "typedDictAccess",
            addendum |-> IF usage.setExpectedTypeDiag = "nonempty"
                         THEN <<Message("expectedType", "")>>
                         ELSE mapped.messages]>>

\* Lines 1110-1227. The shape of the subscript is looked at first (lines
\* 1116-1128); the class of the base type is asserted to be a TypedDict only
\* where the entries are asked for (line 1130).
GetTypeOfIndexedTypedDict(node, o, indexType, usage) ==
    LET baseType == objs[o]
        cache == CacheAfterResolve(typedDictEntries, baseType.details)
        entries == getTypedDictMembersForClass(cache, baseType, AllowNarrowedFor(usage))
        mapped == IndexSubtypes(entries, indexType, usage, node.inTry)
        call == [op |-> "getTypeOfIndexedTypedDict", obj |-> o, node |-> node,
                 indexType |-> indexType, usage |-> usage]
    IN  /\ IF node.nItems # 1
           THEN /\ ret' = call @@ [handled |-> TRUE, types |-> <<"Unknown">>,
                                   entries |-> <<>>, messages |-> <<>>,
                                   diagnostics |-> <<[rule |-> "reportGeneralTypeIssues",
                                                      message |-> "typeArgsMismatchOne",
                                                      addendum |-> <<>>]>>]
                /\ UNCHANGED <<typedDictEntries, mergeRuns>>
           ELSE IF UnsupportedSubscript(node)
           THEN /\ ret' = call @@ [handled |-> FALSE, types |-> <<>>, entries |-> <<>>,
                                   messages |-> <<>>, diagnostics |-> <<>>]
                /\ UNCHANGED <<typedDictEntries, mergeRuns>>
           ELSE /\ isTypedDictClass(baseType)
                /\ ret' = call @@ [handled |-> TRUE, types |-> mapped.types,
                                   entries |-> entries, messages |-> mapped.messages,
                                   diagnostics |-> IndexDiagnostic(usage, mapped)]
                /\ typedDictEntries' = cache
                /\ mergeRuns' = MergeRunsAfter(mergeRuns, typedDictEntries, baseType.details)
        /\ UNCHANGED <<details, objs, memo>>

(***************************************************************************)
(* The caller takes the result of the last call; the next call starts      *)
(* from there.                                                             *)
(***************************************************************************)
NoCall == [op |-> "none"]

Idle == ret.op = "none"

Return ==
    /\ ~Idle
    /\ ret' = NoCall
    /\ UNCHANGED <<details, typedDictEntries, objs, mergeRuns, memo>>
    /\ UNCHANGED <<walkerVars, sinkVars>>

(***************************************************************************)
(* Inputs of the calls.                                                    *)
(***************************************************************************)
\* Keys and values of a construction: a literal key with a bool or a str
\* value, and a key that is no literal.
ItemChoices ==
    {Item(TRUE, k, t, FALSE) : k \in {"x", "k", "m", "z"}, t \in {"bool", "str"}}
        \cup {Item(FALSE, "", "bool", FALSE)}

ItemLists(n) == UNION {[1..len -> ItemChoices] : len \in 0..n}

\* A few short lists: none, one key, or x and k with a read-only value.
ShortItemLists ==
    {<<>>, <<Item(TRUE, "x", "bool", FALSE)>>, <<Item(TRUE, "z", "str", FALSE)>>,
     <<Item(TRUE, "x", "bool", FALSE), Item(TRUE, "k", "bool", TRUE)>>}

\* The keys narrowed: declared fields of the pair tables and an undeclared key.
NarrowKeys == {"k", "m", "x", "z"}

(***************************************************************************)
(* Specifications.                                                         *)
(***************************************************************************)
GetMembersStep ==
    /\ Idle
    /\ UNCHANGED <<walkerVars, sinkVars>>
    /\ \E o \in ObjIds, allowNarrowed \in BOOLEAN :
           GetTypedDictMembersForClass(o, allowNarrowed)

AssignTypedDictStep ==
    /\ Idle
    /\ UNCHANGED <<walkerVars, sinkVars>>
    /\ \E d \in ObjIds, s \in ObjIds, hasDiag \in BOOLEAN, flags \in AssignFlags :
           /\ flags # {} => hasDiag
           /\ AssignTypedDictToTypedDict(d, s, hasDiag, flags)

AssignToStep ==
    /\ Idle
    /\ UNCHANGED <<walkerVars, sinkVars>>
    /\ \E o \in ObjIds, items \in ShortItemLists : AssignToTypedDict(o, items, TRUE)

\* A construction from keys and values for one of the declared types.
ConstructStep ==
    /\ Idle
    /\ Clones = {}
    /\ UNCHANGED <<walkerVars, sinkVars>>
    /\ \E o \in ObjIds, items \in ItemLists(MaxKeys), hasDiag \in BOOLEAN :
           AssignToTypedDict(o, items, hasDiag)

NarrowStep ==
    /\ Idle
    /\ UNCHANGED <<walkerVars, sinkVars>>
    /\ \E o \in ObjIds, key \in NarrowKeys : NarrowForKeyAssignment(o, key)

\* A subscript access t[key] with a literal key, outside a try block.
IndexStep ==
    /\ Idle
    /\ UNCHANGED <<walkerVars, sinkVars>>
    /\ \E o \in ObjIds, method \in {"get", "set", "del"}, key \in {"k", "z"} :
           GetTypeOfIndexedTypedDict(IndexNode(1, FALSE, FALSE, TRUE, FALSE), o,
                                     <<IndexSubtype("literal", key)>>,
                                     Usage(method, IF method = "set" THEN "str" ELSE "none",
                                           "none"))

\* narrowForKeyAssignment(narrowForKeyAssignment(t, k), k): the result of a
\* narrowing is narrowed again on the same key.
NarrowAgainStep ==
    /\ ret.op = "narrowForKeyAssignment"
    /\ ~ret.again
    /\ NarrowForKeyAssignment(ret.result, ret.key)
    /\ UNCHANGED <<walkerVars, sinkVars>>

\* Every operation, in any order, on a few class tables.
CoreTables ==
    {PairTable(KeySpec(TRUE, "int", FALSE, FALSE), KeySpec(TRUE, "bool", FALSE, TRUE))}

Init == InitWith(CoreTables, <<>>)

Next ==
    \/ GetMembersStep
    \/ AssignTypedDictStep
    \/ AssignToStep
    \/ IndexStep
    \/ NarrowStep
    \/ NarrowAgainStep
    \/ Return

Spec == Init /\ [][Next]_vars

\* Entry resolution over the inheritance chains and over two bases.
MergePairTables ==
    {PairTable(KeySpec(TRUE, "int", FALSE, FALSE), s) : s \in SrcKeySpecs}

InitMerge ==
    \/ InitWith(ChainTables \cup MergePairTables, <<>>)
    \/ InitWith({DeepChainTable}, DeepRoots)

NextMerge ==
    \/ GetMembersStep
    \/ Return

SpecMerge == InitMerge /\ [][NextMerge]_vars

\* Inheritance cycles: classes 1 to len derive from one another in a ring
\* (class 1 from itself when len is 1), class 4 has no base, class 5 derives
\* from class 4 and from class 1.
CycleTable(len, modifier) ==
    LET ring(c) == IF c <= len THEN <<(c % len) + 1>> ELSE <<>>
    IN  [c \in 1..5 |->
            CASE c = 1 -> ClassDetails(TRUE, FALSE, ring(1),
                            <<VarField("a", "int", modifier, FALSE)>>)
              [] c = 2 -> ClassDetails(TRUE, TRUE, ring(2),
                            <<VarField("a", "bool", "none", FALSE),
                              VarField("b", "str", modifier, FALSE)>>)
              [] c = 3 -> ClassDetails(TRUE, FALSE, ring(3),
                            <<VarField("b", "int", "none", TRUE),
                              VarField("e", "str", "none", FALSE)>>)
              [] c = 4 -> ClassDetails(TRUE, FALSE, <<>>,
                            <<VarField("c", "str", "none", FALSE)>>)
              [] c = 5 -> ClassDetails(TRUE, FALSE, <<4, 1>>,
                            <<VarField("d", "int", "none", FALSE)>>)]

InitCycle == InitWith({CycleTable(len, m) : len \in 1..3, m \in Modifiers}, <<>>)

SpecCycle == InitCycle /\ [][NextMerge]_vars

\* Structural assignability over every pair of field declarations.
InitAssign == InitWith(PairTables, <<>>)

NextAssign ==
    \/ AssignTypedDictStep
    \/ NarrowStep
    \/ Return

SpecAssign == InitAssign /\ [][NextAssign]_vars

\* Construction from keys and values.
ConstructTables ==
    {PairTable(d, s) : d \in DestKeySpecs,
                       s \in {KeySpec(TRUE, "bool", TRUE, TRUE),
                              KeySpec(FALSE, "int", FALSE, FALSE)}}

InitConstruct == InitWith(ConstructTables, <<>>)

NextConstruct ==
    \/ ConstructStep
    \/ Return

SpecConstruct == InitConstruct /\ [][NextConstruct]_vars

\* The type returned by a construction is assigned to the type that it was
\* constructed for.
AssignResultStep ==
    /\ ret.op = "assignToTypedDict"
    /\ ret.isMatch
    /\ UNCHANGED <<walkerVars, sinkVars>>
    /\ \E hasDiag \in BOOLEAN, flags \in AssignFlags :
           AssignTypedDictToTypedDict(ret.obj, ret.result, hasDiag, flags)

NextConstructAssign ==
    \/ ConstructStep
    \/ AssignResultStep
    \/ Return

SpecConstructAssign == InitConstruct /\ [][NextConstructAssign]_vars

\* Subscript access on declared types and on one narrowed clone: k is
\* required or not, read-only or not, m is not required, x is required, z is
\* no field.
IndexTables ==
    CoreTables \cup
        {PairTable(KeySpec(TRUE, "int", TRUE, TRUE), KeySpec(TRUE, "bool", TRUE, FALSE))}

\* Every shape of the subscript: zero, one or two items, with or without a
\* trailing comma, a keyword name, an unpacked argument.
IndexNodes ==
    {IndexNode(n, comma, name, simple, FALSE) :
        n \in 0..2, comma \in BOOLEAN, name \in BOOLEAN, simple \in BOOLEAN}

\* The types of the index expression: a literal key, str, int, Any, Unknown
\* and unions of two of them.
IndexTypes ==
    {<<IndexSubtype("literal", key)>> : key \in {"k", "m", "x", "z"}}
        \cup {<<IndexSubtype(kind, "")>> : kind \in {"str", "int", "Any", "Unknown"}}
        \cup {<<IndexSubtype("literal", "k"), IndexSubtype("literal", "m")>>,
              <<IndexSubtype("literal", "k"), IndexSubtype("int", "")>>,
              <<IndexSubtype("literal", "m"), IndexSubtype("str", "")>>}

Usages ==
    {Usage(method, "none", expected) :
        method \in {"get", "set", "del"}, expected \in {"none", "empty", "nonempty"}}
        \cup {Usage("set", setType, expected) :
                 setType \in {"bool", "str"}, expected \in {"none", "empty", "nonempty"}}

\* A subscript of any shape.
IndexShapeStep ==
    /\ Idle
    /\ UNCHANGED <<walkerVars, sinkVars>>
    /\ \E o \in ObjIds, node \in IndexNodes :
           GetTypeOfIndexedTypedDict(node, o, <<IndexSubtype("literal", "k")>>,
                                     Usage("get", "none", "none"))

\* A subscript with one simple item, inside or outside a try block.
IndexAccessStep ==
    /\ Idle
    /\ UNCHANGED <<walkerVars, sinkVars>>
    /\ \E o \in ObjIds, inTry \in BOOLEAN, indexType \in IndexTypes, usage \in Usages :
           GetTypeOfIndexedTypedDict(IndexNode(1, FALSE, FALSE, TRUE, inTry), o,
                                     indexType, usage)

\* The first narrowing of a declared type.
NarrowOnceStep ==
    /\ Idle
    /\ Clones = {}
    /\ UNCHANGED <<walkerVars, sinkVars>>
    /\ \E o \in ObjIds, key \in {"k", "m"} : NarrowForKeyAssignment(o, key)

\* The first construction that returns a narrowed clone.
ConstructOnceStep ==
    /\ Idle
    /\ Clones = {}
    /\ UNCHANGED <<walkerVars, sinkVars>>
    /\ \E o \in ObjIds, items \in ShortItemLists : AssignToTypedDict(o, items, TRUE)

InitIndex == InitWith(IndexTables, <<>>)

NextIndex ==
    \/ IndexShapeStep
    \/ IndexAccessStep
    \/ NarrowOnceStep
    \/ ConstructOnceStep
    \/ Return

SpecIndex == InitIndex /\ [][NextIndex]_vars

(***************************************************************************)
(* Partial views: the methods of a declared class are synthesized once,    *)
(* the partial view is queried, constructed from a dict expression and     *)
(* narrowed like any other type.                                           *)
(***************************************************************************)
\* The type objects made by cloneForPartialTypedDict.
Partials == {i \in ObjIds : objs[i].isTypedDictPartial}

\* The classes with a read-only field and the class whose every field is
\* read-only.
PartialTables ==
    IndexTables \cup
        {[c \in 1..4 |->
            IF c = 2
            THEN ClassDetails(TRUE, FALSE, <<>>,
                     <<VarField("x", "int", "none", TRUE)>>
                         \o KeyField(KeySpec(TRUE, "bool", FALSE, TRUE)))
            ELSE PairTable(KeySpec(TRUE, "int", FALSE, FALSE),
                           KeySpec(TRUE, "bool", FALSE, TRUE))[c]]}

\* The methods of a declared class are synthesized.
SynthesizeStep ==
    /\ Idle
    /\ Partials = {}
    /\ UNCHANGED <<walkerVars, sinkVars>>
    /\ \E o \in ObjIds, isClassFinal \in BOOLEAN :
           /\ ~objs[o].narrowed.has
           /\ SynthesizeTypedDictClassMethods(o, isClassFinal,
                  [op |-> "synthesizeTypedDictClassMethods", obj |-> o])

\* Constructions and key assignments in any order, on the declared types,
\* their partial views and the clones made before.
NextNarrow ==
    \/ SynthesizeStep
    \/ AssignToStep
    \/ NarrowStep
    \/ Return

InitPartial == InitWith(PartialTables, <<>>)

NextPartial ==
    \/ SynthesizeStep
    \/ GetMembersStep
    \/ NarrowOnceStep
    \/ ConstructOnceStep
    \/ Return

SpecPartial == InitPartial /\ [][NextPartial]_vars

SpecNarrow == Init /\ [][NextNarrow]_vars

(***************************************************************************)
(* Creation: one class is made by a call of TypedDict or by an inlined     *)
(* dict[{...}] annotation, then its members are asked for.                 *)
(***************************************************************************)
\* The value expressions of the fields: int, NotRequired[str] and
\* ReadOnly[NotRequired[int]].
TypeNodes ==
    {TypeNode("int", "none", FALSE), TypeNode("str", "NotRequired", FALSE),
     TypeNode("int", "NotRequired", TRUE)}

\* Entries of a dictionary expression: the keys 'x' (twice, with different
\* values) and 'y', the empty key, a key that is no string, and **d.
DictEntryChoices ==
    {DictEntry("DictionaryKeyEntry", Node("StringList", "x"), TypeNode("int", "none", FALSE)),
     DictEntry("DictionaryKeyEntry", Node("StringList", "x"), TypeNode("str", "NotRequired", FALSE)),
     DictEntry("DictionaryKeyEntry", Node("StringList", "y"), TypeNode("int", "NotRequired", TRUE)),
     DictEntry("DictionaryKeyEntry", Node("StringList", ""), TypeNode("int", "none", FALSE)),
     DictEntry("DictionaryKeyEntry", Node("Name", "x"), TypeNode("int", "none", FALSE)),
     DictEntry("DictionaryExpandEntry", Node("none", ""), Node("Name", "d"))}

DictNodes ==
    {DictionaryNode(entries) :
        entries \in UNION {[1..n -> DictEntryChoices] : n \in 0..MaxEntries}}

\* The first argument: 'P', '', the name P, and *'P'.
NameArgs ==
    {Arg("Simple", "", Node("StringList", "P")), Arg("Simple", "", Node("StringList", "")),
     Arg("Simple", "", Node("Name", "P")), Arg("UnpackedList", "", Node("StringList", "P"))}

\* The arguments after the dictionary: none, total=False, total=True,
\* total=None, another keyword, a positional argument.
ExtraArgLists ==
    {<<>>} \cup
    {<<Arg("Simple", "total", Node("Constant", c))>> : c \in {"False", "True", "None"}} \cup
    {<<Arg("Simple", "extra", TypeNode("int", "none", FALSE))>>,
     <<Arg("Simple", "", Node("Name", "P"))>>,
     <<Arg("Simple", "total", Node("none", ""))>>,
     <<Arg("Simple", "extra", Node("none", ""))>>}

\* The arguments of the keyword syntax: x and y as keywords, x twice with
\* different values, and a positional argument.
KeywordLists ==
    LET choices == {Arg("Simple", "x", TypeNode("int", "none", FALSE)),
                    Arg("Simple", "x", TypeNode("str", "NotRequired", FALSE)),
                    Arg("Simple", "y", TypeNode("int", "NotRequired", TRUE)),
                    Arg("Simple", "", Node("Name", "P"))}
    IN  UNION {[1..n -> choices] : n \in 1..MaxEntries}

ArgLists ==
    {<<>>}
        \cup {<<nameArg>> : nameArg \in NameArgs}
        \cup {<<nameArg, Arg("Simple", "", dictNode)>> \o extra :
                 nameArg \in NameArgs, dictNode \in DictNodes, extra \in ExtraArgLists}
        \cup {<<nameArg>> \o keywords : nameArg \in NameArgs, keywords \in KeywordLists}

\* No class was created yet: the classes are those of the initial table.
CreateStep ==
    /\ Idle
    /\ Len(details) = 1
    /\ UNCHANGED <<walkerVars, sinkVars>>
    /\ \E argList \in ArgLists, target \in {"", "P", "Q"} :
           CreateTypedDictType(1, argList, target)

CreateInlinedStep ==
    /\ Idle
    /\ Len(details) = 1
    /\ UNCHANGED <<walkerVars, sinkVars>>
    /\ \E dictNode \in DictNodes : CreateTypedDictTypeInlined(1, dictNode)

SynthesizeCreatedStep ==
    /\ SynthesizeCreated
    /\ UNCHANGED <<walkerVars, sinkVars>>

\* A creation returns after its call of synthesizeTypedDictClassMethods.
ReturnCreated ==
    /\ ("pc" \in DOMAIN ret) => ret.pc = "done"
    /\ Return

\* Class 1 is the special form TypedDict that the created class derives from.
InitCreate ==
    InitWith({<<ClassDetails(FALSE, FALSE, <<>>, <<Field("copy", FALSE, <<FuncDecl>>)>>)>>}, <<>>)

NextCreate ==
    \/ CreateStep
    \/ CreateInlinedStep
    \/ SynthesizeCreatedStep
    \/ GetMembersStep
    \/ ReturnCreated

SpecCreate == InitCreate /\ [][NextCreate]_vars

(***************************************************************************)
(* Diagnostic sinks (diagnostics.ts). A sink refers to its diagnosticList  *)
(* by the index of the array in arrays, so that two references to one      *)
(* array are told from two arrays with the same elements; diagnosticMap is *)
(* an insertion-ordered sequence of [name |-> key, diag |-> diagnostic].   *)
(***************************************************************************)
Range(startLine, startCharacter, endLine, endCharacter) ==
    [start |-> [line |-> startLine, character |-> startCharacter],
     end |-> [line |-> endLine, character |-> endCharacter]]

\* new Diagnostic(category, message, range); action tells whether addAction
\* was called on it.
Diagnostic(category, message, range, action) ==
    [category |-> category, message |-> message, range |-> range, action |-> action]

\* hashString maps every string to a 32-bit number, so some messages share
\* their hash: here "a" and "c" do.
hashString(message) == IF message = "b" THEN 2 ELSE 1

\* Lines 82-84: the key of a diagnostic.
DiagnosticKey(diag) ==
    <<diag.range.start.line, diag.range.start.character,
      diag.range.end.line, diag.range.end.character, hashString(diag.message)>>

\* The array that the sink refers to.
DiagnosticList(heap, sink) == heap[sink.diagnosticList]

\* The arrays that no sink refers to belong to the callers; they are left
\* out of the heap, and a new array takes the first free place.
Referenced(allSinks) == {allSinks[i].diagnosticList : i \in 1..Len(allSinks)}

Collect(heap, allSinks) ==
    [i \in 1..Len(heap) |-> IF i \in Referenced(allSinks) THEN heap[i] ELSE <<>>]

NewArray(heap, allSinks) ==
    IF \E i \in 1..Len(heap) : i \notin Referenced(allSinks)
    THEN CHOOSE i \in 1..Len(heap) :
             /\ i \notin Referenced(allSinks)
             /\ \A j \in 1..(i - 1) : j \in Referenced(allSinks)
    ELSE Len(heap) + 1

\* heap with array ref set to value, ref being at most one past its end.
Store(heap, ref, value) ==
    IF ref > Len(heap) THEN Append(heap, value) ELSE [heap EXCEPT ![ref] = value]

\* The state after a call on the sinks, and the record of the call.
SinkCall(newSinks, newArrays, call) ==
    /\ sinks' = newSinks
    /\ arrays' = Collect(newArrays, newSinks)
    /\ ret' = call
    /\ UNCHANGED <<details, typedDictEntries, objs, mergeRuns, memo>>
    /\ UNCHANGED walkerVars

\* Lines 31-34 and 133-136: diagnosticList is the array passed, or a new
\* empty array if none is passed; diagnosticMap is empty. kind is the
\* class, lines the TextRangeCollection of a TextRangeDiagnosticSink.
NewSink(kind, lines, diagnosticList) ==
    [kind |-> kind, lines |-> lines, diagnosticList |-> diagnosticList,
     diagnosticMap |-> <<>>]

Construct(kind, lines, hasDiagnostics, diagnostics) ==
    LET ref == NewArray(arrays, sinks)
    IN  SinkCall(Append(sinks, NewSink(kind, lines, ref)),
                 Store(arrays, ref, IF hasDiagnostics THEN diagnostics ELSE <<>>),
                 [op |-> "constructor", sink |-> Len(sinks) + 1])

\* Lines 36-41.
FetchAndClear(s) ==
    LET fresh == NewArray(arrays, sinks)
    IN  SinkCall([sinks EXCEPT ![s].diagnosticList = fresh, ![s].diagnosticMap = <<>>],
                 Store(arrays, fresh, <<>>),
                 [op |-> "fetchAndClear", sink |-> s,
                  prevDiagnostics |-> DiagnosticList(arrays, sinks[s])])

\* Line 85.
IsNewKey(sink, diag) == ~MapHas(sink.diagnosticMap, DiagnosticKey(diag))

\* Lines 79-90; method is the method it was called through.
AddDiagnostic(s, diag, method) ==
    LET sink == sinks[s]
        ref == sink.diagnosticList
    IN  IF IsNewKey(sink, diag)
        THEN SinkCall([sinks EXCEPT ![s].diagnosticMap =
                          MapSet(@, [name |-> DiagnosticKey(diag), diag |-> diag])],
                      [arrays EXCEPT ![ref] = Append(@, diag)],
                      [op |-> method, sink |-> s, diag |-> diag, added |-> TRUE])
        ELSE SinkCall(sinks, arrays,
                      [op |-> method, sink |-> s, diag |-> diag, added |-> FALSE])

\* Lines 43-77: the category of the diagnostic that each method makes.
CategoryOf(method) ==
    CASE method = "addError" -> "Error"
      [] method = "addWarning" -> "Warning"
      [] method = "addInformation" -> "Information"
      [] method = "addUnusedCode" -> "UnusedCode"
      [] method = "addUnreachableCode" -> "UnreachableCode"
      [] method = "addDeprecated" -> "Deprecated"

\* appendArray(to, elementsToPush) of ./collectionUtils, which is not among
\* the sources: by its name and its use at line 93 it pushes the elements
\* onto the array to, in their order, and looks at no key.
appendArray(to, elementsToPush) == to \o elementsToPush

\* Lines 92-94.
AddDiagnostics(s, diagsToAdd) ==
    SinkCall(sinks,
             [arrays EXCEPT ![sinks[s].diagnosticList] = appendArray(@, diagsToAdd)],
             [op |-> "addDiagnostics", sink |-> s, diagsToAdd |-> diagsToAdd])

\* convertOffsetToPosition for a collection of line ranges [start, length]:
\* the line that holds the offset, counted from 0, and the offset within it;
\* an offset at or past the end of the last line is on the last line.
convertOffsetToPosition(offset, lines) ==
    IF lines = <<>> THEN [line |-> 0, character |-> 0]
    ELSE LET i == CHOOSE n \in 1..Len(lines) :
                      /\ lines[n].start <= offset \/ n = 1
                      /\ offset < lines[n].start + lines[n].length \/ n = Len(lines)
             inLine == offset - lines[i].start
         IN  [line |-> i - 1,
              character |-> IF inLine < 0 THEN 0
                            ELSE IF inLine > lines[i].length THEN lines[i].length
                            ELSE inLine]

\* convertOffsetsToRange(startOffset, endOffset, lines)
convertOffsetsToRange(startOffset, endOffset, lines) ==
    [start |-> convertOffsetToPosition(startOffset, lines),
     end |-> convertOffsetToPosition(endOffset, lines)]

\* TextRange
TextRange(start, length) == [start |-> start, length |-> length]

\* Lines 141-151: the method that each level goes to.
LevelMethods ==
    [error |-> "addError", warning |-> "addWarning", information |-> "addInformation"]

\* Lines 138-153: addDiagnosticWithTextRange(level, message, range); for a
\* level that is none of the three an Error is thrown after the range was
\* converted, the sink being as it was.
AddDiagnosticWithTextRange(s, level, message, range) ==
    LET positionRange ==
            convertOffsetsToRange(range.start, range.start + range.length, sinks[s].lines)
    IN  IF level \in DOMAIN LevelMethods
        THEN AddDiagnostic(s, Diagnostic(CategoryOf(LevelMethods[level]), message,
                                         positionRange, FALSE),
                           "addDiagnosticWithTextRange")
        ELSE SinkCall(sinks, arrays,
                      [op |-> "addDiagnosticWithTextRange", sink |-> s, level |-> level,
                       thrown |-> "is not expected value"])

\* Lines 155-177: the method that each of the three methods calls with the
\* converted range.
WithTextRangeMethods ==
    [addUnusedCodeWithTextRange |-> "addUnusedCode",
     addUnreachableCodeWithTextRange |-> "addUnreachableCode",
     addDeprecatedWithTextRange |-> "addDeprecated"]

\* Lines 155-177: addUnusedCodeWithTextRange, addUnreachableCodeWithTextRange
\* and addDeprecatedWithTextRange(message, range, action).
AddWithTextRange(s, method, message, range, action) ==
    AddDiagnostic(s,
        Diagnostic(CategoryOf(WithTextRangeMethods[method]), message,
                   convertOffsetsToRange(range.start, range.start + range.length,
                                         sinks[s].lines),
                   action),
        method)

\* Diagnostic.copy() of ./diagnostic, which is not among the sources: by
\* its name it makes a new Diagnostic of the same category, message and
\* range, with the action of the original.
DiagnosticCopy(diag) ==
    Diagnostic(diag.category, diag.message,
               Range(diag.range.start.line, diag.range.start.character,
                     diag.range.end.line, diag.range.end.character),
               diag.action)

\* TextRangeCollection.copy() of ./textRangeCollection, which is not among
\* the sources: by its name it makes a collection of the same ranges.
TextRangeCollectionCopy(lines) ==
    [i \in 1..Len(lines) |-> TextRange(lines[i].start, lines[i].length)]

\* A variant in which the copy refers to the array of the original.
ListOfCopyShared(sink, fresh) == sink.diagnosticList

\* Lines 121 and 180: this.diagnosticList.map(...) makes a new array.
ListOfCopy(sink, fresh) == fresh

\* A variant that fills the new array from the last diagnostic to the first.
MapDiagnosticsReversed(list) == [i \in 1..Len(list) |-> DiagnosticCopy(list[Len(list) + 1 - i])]

\* Lines 121 and 180: this.diagnosticList.map(diag => diag.copy()), the
\* copies in the order of the list.
MapDiagnostics(list) == [i \in 1..Len(list) |-> DiagnosticCopy(list[i])]

\* Lines 122 and 181: a new Map of the entries of diagnosticMap in their
\* order, each with its key and a copy of its diagnostic.
MapEntries(map) ==
    [i \in 1..Len(map) |-> [name |-> map[i].name, diag |-> DiagnosticCopy(map[i].diag)]]

\* Lines 120-125 and 179-184: the constructor is called with the new array
\* (and a copy of lines), then diagnosticMap is set.
Copy(s) ==
    LET sink == sinks[s]
        fresh == NewArray(arrays, sinks)
        self == [NewSink(sink.kind, TextRangeCollectionCopy(sink.lines),
                         ListOfCopy(sink, fresh))
                     EXCEPT !.diagnosticMap = MapEntries(sink.diagnosticMap)]
    IN  SinkCall(Append(sinks, self),
                 Store(arrays, fresh, MapDiagnostics(DiagnosticList(arrays, sink))),
                 [op |-> "copy", sink |-> s, self |-> Len(sinks) + 1])

(***************************************************************************)
(* The calls on the sinks: one sink is constructed and copied once, and    *)
(* every method is called on either of the two.                            *)
(***************************************************************************)
AddMethods ==
    {"addError", "addWarning", "addInformation", "addUnusedCode",
     "addUnreachableCode", "addDeprecated"}

\* The methods with an optional action parameter (lines 55, 63, 71).
ActionMethods == {"addUnusedCode", "addUnreachableCode", "addDeprecated"}

SinkDiagnostics ==
    {Diagnostic("Error", "a", Range(0, 0, 0, 1), FALSE),
     Diagnostic("Error", "c", Range(0, 0, 0, 1), FALSE),
     Diagnostic("Warning", "a", Range(1, 0, 1, 1), FALSE)}

DiagnosticArrays ==
    {<<>>, <<Diagnostic("Error", "a", Range(0, 0, 0, 1), FALSE)>>,
     <<Diagnostic("Error", "a", Range(0, 0, 0, 1), FALSE),
       Diagnostic("Error", "b", Range(0, 0, 0, 1), FALSE)>>}

SinkKinds == {"DiagnosticSink", "TextRangeDiagnosticSink"}

\* The TextRangeCollection of a TextRangeDiagnosticSink: the line ranges as
\* [start, length] records.
LinesOf(kind) ==
    IF kind = "TextRangeDiagnosticSink"
    THEN <<[start |-> 0, length |-> 2], [start |-> 2, length |-> 2]>>
    ELSE <<>>

RECURSIVE Held(_, _)
\* The number of diagnostics held by the first n arrays of the heap.
Held(heap, n) == IF n = 0 THEN 0 ELSE Held(heap, n - 1) + Len(heap[n])

\* The calls that add to a list are made while the sinks together hold at
\* most MaxDiags diagnostics after them; copy is not held back.
HasRoom(n) == Held(arrays, Len(arrays)) + n <= MaxDiags

\* Room for diag in sink s, if adding it is not refused as a duplicate.
HasRoomFor(s, diag) == IsNewKey(sinks[s], diag) => HasRoom(1)

NewSinkStep ==
    /\ Idle
    /\ sinks = <<>>
    /\ \E kind \in SinkKinds, hasDiagnostics \in BOOLEAN, diagnostics \in DiagnosticArrays :
           /\ Len(diagnostics) <= MaxDiags
           /\ hasDiagnostics \/ diagnostics = <<>>
           /\ Construct(kind, LinesOf(kind), hasDiagnostics, diagnostics)

AddStep ==
    /\ Idle
    /\ \E s \in 1..Len(sinks), method \in AddMethods, action \in BOOLEAN :
           /\ HasRoomFor(s, Diagnostic(CategoryOf(method), "a", Range(0, 0, 0, 1), action))
           /\ action => method \in ActionMethods
           /\ AddDiagnostic(s, Diagnostic(CategoryOf(method), "a", Range(0, 0, 0, 1), action),
                            method)

AddDiagnosticStep ==
    /\ Idle
    /\ \E s \in 1..Len(sinks), diag \in SinkDiagnostics :
           /\ HasRoomFor(s, diag)
           /\ AddDiagnostic(s, diag, "addDiagnostic")

AddDiagnosticsStep ==
    /\ Idle
    /\ \E s \in 1..Len(sinks), diagsToAdd \in DiagnosticArrays :
           /\ HasRoom(Len(diagsToAdd))
           /\ AddDiagnostics(s, diagsToAdd)

\* The text ranges passed: the first character of the first line and of the
\* second line.
TextRanges == {TextRange(0, 1), TextRange(2, 1)}

\* Every level on the first line; on the second line a warning, and a level
\* that is none of the three.
AddDiagnosticWithTextRangeStep ==
    /\ Idle
    /\ \E s \in 1..Len(sinks), level \in {"error", "warning", "information", "hint"},
          range \in TextRanges :
           /\ sinks[s].kind = "TextRangeDiagnosticSink"
           /\ HasRoom(1)
           /\ range # TextRange(0, 1) => level \in {"warning", "hint"}
           /\ AddDiagnosticWithTextRange(s, level, "a", range)

AddWithTextRangeStep ==
    /\ Idle
    /\ \E s \in 1..Len(sinks), method \in DOMAIN WithTextRangeMethods, action \in BOOLEAN :
           /\ sinks[s].kind = "TextRangeDiagnosticSink"
           /\ HasRoom(1)
           /\ AddWithTextRange(s, method, "a", TextRange(0, 1), action)

FetchAndClearStep ==
    /\ Idle
    /\ \E s \in 1..Len(sinks) : FetchAndClear(s)

\* The sink is copied once, whatever it holds.
CopyStep ==
    /\ Idle
    /\ Len(sinks) = 1
    /\ Copy(1)

InitSink == InitWith({<<>>}, <<>>)

NextSink ==
    \/ NewSinkStep
    \/ AddStep
    \/ AddDiagnosticStep
    \/ AddDiagnosticsStep
    \/ AddDiagnosticWithTextRangeStep
    \/ AddWithTextRangeStep
    \/ FetchAndClearStep
    \/ CopyStep
    \/ Return

SpecSink == InitSink /\ [][NextSink]_vars

(***************************************************************************)
(* The type walker (typeWalker.ts). A type is identified by a small        *)
(* integer and described by the parts the walker reads: its category, its  *)
(* typeAliasInfo, and per category its parameters and return type, its     *)
(* overloads, its type arguments or its subtypes. 0 stands for undefined.  *)
(***************************************************************************)
Categories ==
    {"Unbound", "Any", "Unknown", "Never", "Function", "OverloadedFunction",
     "Class", "Module", "Union", "TypeVar", "Intersection"}

NoSeq == [has |-> FALSE, seq |-> <<>>]

SomeSeq(seq) == [has |-> TRUE, seq |-> seq]

\* A type of a category without parts, and without typeAliasInfo.
LeafType(category) ==
    [category |-> category, hasTypeAliasInfo |-> FALSE, aliasTypeArguments |-> NoSeq,
     parameters |-> <<>>, isParamSpecValue |-> FALSE, returnType |-> 0,
     overloads |-> <<>>, isPseudoGenericClass |-> FALSE,
     tupleTypeArguments |-> NoSeq, typeArguments |-> NoSeq, subtypes |-> <<>>]

Param(hasName, type) == [hasName |-> hasName, type |-> type]

FunctionType(parameters, isParamSpecValue, returnType) ==
    [LeafType("Function") EXCEPT !.parameters = parameters,
                                 !.isParamSpecValue = isParamSpecValue,
                                 !.returnType = returnType]

OverloadedFunctionType(overloads) ==
    [LeafType("OverloadedFunction") EXCEPT !.overloads = overloads]

ClassTypeNode(isPseudoGenericClass, tupleTypeArguments, typeArguments) ==
    [LeafType("Class") EXCEPT !.isPseudoGenericClass = isPseudoGenericClass,
                              !.tupleTypeArguments = tupleTypeArguments,
                              !.typeArguments = typeArguments]

UnionType(subtypes) == [LeafType("Union") EXCEPT !.subtypes = subtypes]

IntersectionType(subtypes) == [LeafType("Intersection") EXCEPT !.subtypes = subtypes]

\* The type with typeAliasInfo, whose typeArguments may be undefined.
WithTypeAliasInfo(type, aliasTypeArguments) ==
    [type EXCEPT !.hasTypeAliasInfo = TRUE, !.aliasTypeArguments = aliasTypeArguments]

\* The types the walker is run on. 1 is a class that is its own type
\* argument; 16 and 17 refer to each other; 18 is an alias of itself.
TypeGraph ==
    <<ClassTypeNode(FALSE, NoSeq, SomeSeq(<<1, 2>>)),                        \* 1
      LeafType("Any"),                                                       \* 2
      FunctionType(<<Param(TRUE, 4), Param(FALSE, 1), Param(TRUE, 5)>>,
                   FALSE, 6),                                                \* 3
      UnionType(<<2, 5>>),                                                   \* 4
      WithTypeAliasInfo(LeafType("TypeVar"), SomeSeq(<<2, 7>>)),             \* 5
      ClassTypeNode(FALSE, SomeSeq(<<2>>), SomeSeq(<<1>>)),                  \* 6
      LeafType("Never"),                                                     \* 7
      OverloadedFunctionType(<<3, 9>>),                                      \* 8
      FunctionType(<<Param(TRUE, 2)>>, TRUE, 1),                             \* 9
      IntersectionType(<<7, 11>>),                                           \* 10
      ClassTypeNode(TRUE, NoSeq, SomeSeq(<<1>>)),                            \* 11
      LeafType("Module"),                                                    \* 12
      LeafType("Unbound"),                                                   \* 13
      WithTypeAliasInfo(LeafType("Unknown"), NoSeq),                         \* 14
      UnionType(<<12, 13, 14, 10>>),                                         \* 15
      FunctionType(<<>>, FALSE, 17),                                         \* 16
      UnionType(<<16>>),                                                     \* 17
      WithTypeAliasInfo(ClassTypeNode(FALSE, SomeSeq(<<>>), SomeSeq(<<1>>)),
                        SomeSeq(<<18, 2>>))>>                                \* 18

\* The types a walk is started on.
WalkRoots == {1, 8, 15, 16, 18}

\* FunctionType.getEffectiveParameterType for the parameters that have a
\* name (line 146), in order.
NamedParameterTypes(parameters) ==
    LET named == SelectSeq(parameters, LAMBDA param : param.hasName)
    IN  [i \in 1..Len(named) |-> named[i].type]

\* Line 174: the tuple type arguments if there are any (an empty list
\* included), else the type arguments, else nothing.
ClassTypeArgs(type) ==
    IF type.tupleTypeArguments.has THEN type.tupleTypeArguments.seq
    ELSE IF type.typeArguments.has THEN type.typeArguments.seq
    ELSE <<>>

\* The types the loop of the visit method of the category walks.
LoopTypes(type) ==
    CASE type.category = "Function" -> NamedParameterTypes(type.parameters)
      [] type.category = "OverloadedFunction" -> type.overloads
      [] type.category = "Class" ->
             IF type.isPseudoGenericClass THEN <<>> ELSE ClassTypeArgs(type)
      [] type.category \in {"Union", "Intersection"} -> type.subtypes
      [] OTHER -> <<>>

\* The visit method the switch of walk dispatches to.
VisitMethod(category) ==
    CASE category = "Unbound" -> "visitUnbound"
      [] category = "Any" -> "visitAny"
      [] category = "Unknown" -> "visitUnknown"
      [] category = "Never" -> "visitNever"
      [] category = "Function" -> "visitFunction"
      [] category = "OverloadedFunction" -> "visitOverloadedFunction"
      [] category = "Class" -> "visitClass"
      [] category = "Module" -> "visitModule"
      [] category = "Union" -> "visitUnion"
      [] category = "TypeVar" -> "visitTypeVar"
      [] category = "Intersection" -> "visitIntersection"

(***************************************************************************)
(* The walk as a stack machine. A frame is a call of walk(type) with the   *)
(* place it has reached: "walk" (line 43), "visitTypeAlias" (line 55),     *)
(* "alias" and "aliasAfter" (the loop of lines 118-123), "switch" (line    *)
(* 58), "loop" and "loopAfter" (the loop of the visit method),             *)
(* "returnType" (line 155) and "exit" (line 107). The visit methods are    *)
(* public and a subclass overrides them: an override runs the method it    *)
(* overrides and may call cancelWalk before it or after it, so a frame is  *)
(* at "aliasEnd" or "visitEnd" when the method of TypeWalker has returned  *)
(* into the override.                                                      *)
(***************************************************************************)
Frame(type, pc, i) == [type |-> type, pc |-> pc, i |-> i]

Top == frames[Len(frames)]

TopType == TypeGraph[Top.type]

Pop == SubSeq(frames, 1, Len(frames) - 1)

\* The top frame moves to pc with loop index i.
Goto(pc, i) == [frames EXCEPT ![Len(frames)] = Frame(Top.type, pc, i)]

\* walk(type) is called from the top frame, which resumes at pc.
Call(type, pc) == Append(Goto(pc, Top.i), Frame(type, "walk", 0))

At(pc) == frames # <<>> /\ Top.pc = pc

\* An entry of the log: a visit method dispatched on a type, or "limit" for
\* a walk refused at line 43, with the value of _recursionCount.
Visit(type, method, count) == [type |-> type, method |-> method, count |-> count]

Logged(type, method) ==
    [history EXCEPT !.log = Append(@, Visit(type, method, walker.recursionCount))]

\* A visit method of a subclass may call cancelWalk (lines 110-112).
cancelWalk(w) == [w EXCEPT !.isWalkCanceled = TRUE]

\* A walker starts a walk on a root type.
StartWalk(root) ==
    /\ frames = <<>>
    /\ history.walks < MaxWalks
    /\ frames' = <<Frame(root, "walk", 0)>>
    /\ history' = [history EXCEPT !.log = <<>>, !.root = root, !.walks = @ + 1]
    /\ UNCHANGED walker

\* A variant that never takes the depth for exceeded.
RecursionLimitNever(w) == FALSE

\* Line 43.
RecursionLimitExceeded(w) == w.recursionCount > maxTypeRecursionCount

\* A variant that does not record the hit.
WithoutRecursionLimitHit(w) == w

\* Line 44.
WithRecursionLimitHit(w) == [w EXCEPT !.hitRecursionLimit = TRUE]

\* Lines 43-46: past the limit the walk of this type returns at once.
WalkPastLimit ==
    /\ At("walk")
    /\ RecursionLimitExceeded(walker)
    /\ walker' = WithRecursionLimitHit(walker)
    /\ frames' = Pop
    /\ history' = [Logged(Top.type, "limit") EXCEPT !.pastLimit = TRUE]

\* A variant that walks on after a cancellation.
WalkIsCanceledNever(w) == FALSE

\* Line 48.
WalkIsCanceled(w) == w.isWalkCanceled

\* Lines 48-50: a canceled walk returns at once.
WalkCanceled ==
    /\ At("walk")
    /\ ~RecursionLimitExceeded(walker)
    /\ WalkIsCanceled(walker)
    /\ frames' = Pop
    /\ UNCHANGED <<walker, history>>

\* Lines 52-56: the type is entered.
WalkEnter ==
    /\ At("walk")
    /\ ~RecursionLimitExceeded(walker)
    /\ ~WalkIsCanceled(walker)
    /\ walker' = [walker EXCEPT !.recursionCount = @ + 1]
    /\ frames' = Goto(IF TopType.hasTypeAliasInfo THEN "visitTypeAlias" ELSE "switch", 0)
    /\ UNCHANGED history

\* The override of a visit method that runs at the top frame calls
\* cancelWalk or not; h is the history so far, and after tells that the
\* method it overrides has returned. canceledAfter records that a walk that
\* was not canceled got canceled there.
HookMayCancel(h, after) ==
    \E cancel \in BOOLEAN :
        /\ walker' = IF cancel THEN cancelWalk(walker) ELSE walker
        /\ history' = [h EXCEPT
                           !.cancelCalled = @ \/ cancel,
                           !.canceledAfter =
                               @ \/ (cancel /\ after /\ ~walker.isWalkCanceled)]

\* The dispatch of a visit method at the top frame: the override may call
\* cancelWalk, then the method of TypeWalker runs from pc.
Dispatch(method, pc) ==
    /\ HookMayCancel(Logged(Top.type, method), FALSE)
    /\ frames' = Goto(pc, 1)

\* The method of TypeWalker has returned into the override, which may call
\* cancelWalk before it returns to walk at pc.
HookReturn(pc) ==
    /\ HookMayCancel(history, TRUE)
    /\ frames' = Goto(pc, 0)

\* Line 55.
VisitTypeAlias ==
    /\ At("visitTypeAlias")
    /\ Dispatch("visitTypeAlias", "alias")

\* Lines 117-119: the next type argument of the alias is walked, if any.
AliasNext ==
    /\ At("alias")
    /\ IF TopType.aliasTypeArguments.has /\ Top.i <= Len(TopType.aliasTypeArguments.seq)
       THEN /\ Len(frames) < MaxStack
            /\ frames' = Call(TopType.aliasTypeArguments.seq[Top.i], "aliasAfter")
       ELSE frames' = Goto("aliasEnd", 0)
    /\ UNCHANGED <<walker, history>>

\* Lines 120-122.
AliasAfter ==
    /\ At("aliasAfter")
    /\ frames' = IF walker.isWalkCanceled THEN Goto("aliasEnd", 0)
                 ELSE Goto("alias", Top.i + 1)
    /\ UNCHANGED <<walker, history>>

\* Line 125: visitTypeAlias returns, to line 58 of walk.
VisitTypeAliasReturn ==
    /\ At("aliasEnd")
    /\ HookReturn("switch")

\* Lines 58-105.
VisitCategory ==
    /\ At("switch")
    /\ Dispatch(VisitMethod(TopType.category), "loop")

\* Where a visit method goes on after its loop.
AfterLoop == IF TopType.category = "Function" THEN "returnType" ELSE "visitEnd"

\* The loops of lines 144-153, 164-169, 176-181, 191-196 and 200-205: the
\* next part of the type is walked, if any.
LoopNext ==
    /\ At("loop")
    /\ IF Top.i <= Len(LoopTypes(TopType))
       THEN /\ Len(frames) < MaxStack
            /\ frames' = Call(LoopTypes(TopType)[Top.i], "loopAfter")
       ELSE frames' = Goto(AfterLoop, 0)
    /\ UNCHANGED <<walker, history>>

\* The check of the flag after each part (lines 149, 166, 178, 193, 202).
LoopAfter ==
    /\ At("loopAfter")
    /\ frames' = IF walker.isWalkCanceled THEN Goto(AfterLoop, 0)
                 ELSE Goto("loop", Top.i + 1)
    /\ UNCHANGED <<walker, history>>

\* Lines 155-160: the return type of a function.
WalkReturnType ==
    /\ At("returnType")
    /\ IF ~walker.isWalkCanceled /\ ~TopType.isParamSpecValue /\ TopType.returnType # 0
       THEN /\ Len(frames) < MaxStack
            /\ frames' = Call(TopType.returnType, "visitEnd")
       ELSE frames' = Goto("visitEnd", 0)
    /\ UNCHANGED <<walker, history>>

\* The visit method of the category returns, to line 107 of walk.
VisitCategoryReturn ==
    /\ At("visitEnd")
    /\ HookReturn("exit")

\* A variant that leaves the depth counter as the call raised it.
LeaveWalkRaised(w) == w

\* Line 107: this._recursionCount--.
LeaveWalk(w) == [w EXCEPT !.recursionCount = @ - 1]

\* Line 107.
WalkExit ==
    /\ At("exit")
    /\ walker' = LeaveWalk(walker)
    /\ frames' = Pop
    /\ UNCHANGED history

\* One walker, used for up to MaxWalks walks.
InitWalk == InitWith(CoreTables, <<>>)

NextWalk ==
    \/ /\ \E root \in WalkRoots : StartWalk(root)
       /\ UNCHANGED <<typedDictVars, sinkVars>>
    \/ /\ \/ WalkPastLimit
          \/ WalkCanceled
          \/ WalkEnter
          \/ VisitTypeAlias
          \/ AliasNext
          \/ AliasAfter
          \/ VisitTypeAliasReturn
          \/ VisitCategory
          \/ LoopNext
          \/ LoopAfter
          \/ WalkReturnType
          \/ VisitCategoryReturn
          \/ WalkExit
       /\ UNCHANGED <<typedDictVars, sinkVars>>

SpecWalk == InitWalk /\ [][NextWalk]_vars

\* The walker runs in one thread without suspension points: a walk in
\* progress takes its next step.
SpecWalkLive == SpecWalk /\ WF_vars(NextWalk)

(***************************************************************************)
(* Properties.                                                             *)
(***************************************************************************)
StrictSubtype(src, dest) == IsSubtype(src, dest) /\ src # dest

Entries(m) == {m[i] : i \in 1..Len(m)}

IsConstruct == ret.op = "assignToTypedDict"

ProvidedKeys == {ret.items[i].key : i \in 1..Len(ret.items)}

\* C1: assignToTypedDict on literal-string keys succeeds exactly when every
\* provided key is a field of the type, every provided value is assignable
\* to the declared type of its field, and every required field is provided;
\* otherwise it returns undefined (result 0).
C1_ConstructionCompleteness ==
    (IsConstruct /\ \A i \in 1..Len(ret.items) : ret.items[i].isLiteral) =>
        LET unknownKey == \E i \in 1..Len(ret.items) :
                              ~MapHas(ret.symbolMap, ret.items[i].key)
            wrongValue == \E i \in 1..Len(ret.items) :
                              /\ MapHas(ret.symbolMap, ret.items[i].key)
                              /\ ~IsSubtype(ret.items[i].valueType,
                                            MapGet(ret.symbolMap, ret.items[i].key).valueType)
            missingRequired == \E e \in Entries(ret.symbolMap) :
                                   e.isRequired /\ e.name \notin ProvidedKeys
        IN  (ret.result # 0) <=> (~unknownKey /\ ~wrongValue /\ ~missingRequired)

\* A construction that provides the required keys and a not-required key
\* succeeds, while the type also has a required field.
C1_Witness ==
    /\ IsConstruct
    /\ ret.result # 0
    /\ \E e \in Entries(ret.symbolMap) : e.isRequired
    /\ \E e \in Entries(ret.symbolMap) : ~e.isRequired /\ e.name \in ProvidedKeys

IsAssignTypedDict == ret.op = "assignTypedDictToTypedDict"

\* The destination entries that the source has, paired with the source entry.
CommonFields ==
    {<<de, MapGet(ret.srcEntries, de.name)>> :
        de \in {e \in Entries(ret.destEntries) : MapHas(ret.srcEntries, e.name)}}

MissingFields == {e \in Entries(ret.destEntries) : ~MapHas(ret.srcEntries, e.name)}

\* The caller asks for invariance in its flags.
CallerEnforcesInvariance == "EnforceInvariance" \in ret.flags

\* C2 as stated: a writable destination field whose source value type is a
\* strict subtype makes the result false; when the two tables agree on every
\* field but for source value types that are strict subtypes under read-only
\* destination fields, the result is true.
C2_InvariantWhenWritable ==
    IsAssignTypedDict =>
        /\ \A p \in CommonFields :
               (~p[1].isReadOnly /\ StrictSubtype(p[2].valueType, p[1].valueType))
                   => ~ret.result
        /\ ( /\ MissingFields = {}
             /\ \A p \in CommonFields :
                    /\ p[1].isRequired = p[2].isRequired
                    /\ p[1].isReadOnly = p[2].isReadOnly
                    /\ \/ p[1].valueType = p[2].valueType
                       \/ p[1].isReadOnly /\ StrictSubtype(p[2].valueType, p[1].valueType) )
               => ret.result

\* C2: a writable destination field whose source value type is a strict
\* subtype makes the result false, and so does a read-only one when the flags
\* of the caller carry EnforceInvariance; when the two tables agree on every
\* field but for source value types that are strict subtypes under read-only
\* destination fields, and the flags of the caller do not carry
\* EnforceInvariance, the result is true.
C2_InvariantUnlessReadOnly ==
    IsAssignTypedDict =>
        /\ \A p \in CommonFields :
               ( /\ ~p[1].isReadOnly \/ CallerEnforcesInvariance
                 /\ StrictSubtype(p[2].valueType, p[1].valueType) )
                   => ~ret.result
        /\ ( /\ MissingFields = {}
             /\ \A p \in CommonFields :
                    /\ p[1].isRequired = p[2].isRequired
                    /\ p[1].isReadOnly = p[2].isReadOnly
                    /\ \/ p[1].valueType = p[2].valueType
                       \/ /\ p[1].isReadOnly
                          /\ ~CallerEnforcesInvariance
                          /\ StrictSubtype(p[2].valueType, p[1].valueType) )
               => ret.result

\* A source whose value type is a strict subtype is accepted under a
\* read-only destination field.
C2_Witness ==
    /\ IsAssignTypedDict
    /\ ret.result
    /\ \E p \in CommonFields :
           p[1].isReadOnly /\ StrictSubtype(p[2].valueType, p[1].valueType)

\* The value type of a common field passes: the same type under a writable
\* destination field, a subtype under a read-only one.
ValueTypeFits(p) ==
    IF p[1].isReadOnly /\ ~CallerEnforcesInvariance
    THEN IsSubtype(p[2].valueType, p[1].valueType)
    ELSE p[1].valueType = p[2].valueType

\* The value type of a field that the source lacks passes the check against
\* object: object itself when the caller enforces invariance, else a type
\* that object is assignable to.
ObjectFits(e) ==
    IF CallerEnforcesInvariance THEN e.valueType = getObjectType
    ELSE IsSubtype(getObjectType, e.valueType)

\* C3: for a field of both types, a requiredness mismatch under a writable
\* destination field makes the result false, and so does a read-only source
\* field under a writable destination field; a requiredness mismatch under a
\* read-only destination field is tolerated, the result being true when
\* nothing else fails.
C3_RequirednessAndReadOnly ==
    IsAssignTypedDict =>
        /\ \A p \in CommonFields :
               (p[1].isRequired # p[2].isRequired /\ ~p[1].isReadOnly) => ~ret.result
        /\ \A p \in CommonFields :
               (~p[1].isReadOnly /\ p[2].isReadOnly) => ~ret.result
        /\ ( /\ MissingFields = {}
             /\ \A p \in CommonFields :
                    /\ ValueTypeFits(p)
                    /\ p[1].isReadOnly \/ ~p[2].isReadOnly
                    /\ p[1].isReadOnly \/ p[1].isRequired = p[2].isRequired )
               => ret.result

\* A read-only destination field whose requiredness differs from the
\* source's is accepted.
C3_Witness ==
    /\ IsAssignTypedDict
    /\ ret.result
    /\ \E p \in CommonFields : p[1].isReadOnly /\ p[1].isRequired # p[2].isRequired

\* C4: a destination field the source lacks makes the result false, with a
\* typedDictFieldMissing message in the addendum when one is passed, if the
\* field is required or writable; a missing field that is not required and
\* read-only is checked against object, so the result is true only if every
\* missing field is not required, read-only and accepts object.
C4_MissingField ==
    IsAssignTypedDict =>
        /\ \A e \in MissingFields :
               (e.isRequired \/ ~e.isReadOnly) =>
                   /\ ~ret.result
                   /\ ret.hasDiag =>
                          \E i \in 1..Len(ret.diag) :
                              ret.diag[i] = Message("typedDictFieldMissing", e.name)
        /\ \A e \in MissingFields :
               (~e.isRequired /\ e.isReadOnly) =>
                   /\ \A i \in 1..Len(ret.diag) :
                          ret.diag[i] # Message("typedDictFieldMissing", e.name)
                   /\ ~ObjectFits(e) => ~ret.result
        /\ ( /\ \A e \in MissingFields :
                    ~e.isRequired /\ e.isReadOnly /\ ObjectFits(e)
             /\ \A p \in CommonFields :
                    /\ ValueTypeFits(p)
                    /\ p[1].isReadOnly \/ ~p[2].isReadOnly
                    /\ p[1].isReadOnly \/ p[1].isRequired = p[2].isRequired )
               => ret.result

\* A source that lacks a required or writable field is rejected with the
\* message recorded.
C4_WitnessRejected ==
    /\ IsAssignTypedDict
    /\ ~ret.result
    /\ ret.hasDiag
    /\ \E e \in MissingFields : ret.diag = <<Message("typedDictFieldMissing", e.name)>>

(***************************************************************************)
(* Properties of the inheritance merge.                                    *)
(***************************************************************************)
\* The field of classId that becomes the entry called name, if any.
EntryFields(classId) ==
    {details[classId].fields[i] : i \in
        {j \in 1..Len(details[classId].fields) :
            IsEntrySymbol(details[classId].fields[j].symbol)}}

DeclaresEntry(classId, name) == \E f \in EntryFields(classId) : f.name = name

EntryField(classId, name) == CHOOSE f \in EntryFields(classId) : f.name = name

AllFieldNames ==
    UNION {{details[c].fields[i].name : i \in 1..Len(details[c].fields)} : c \in ClassIds}

RECURSIVE DeclaringClass(_, _, _, _)
RECURSIVE DeclaringBase(_, _, _, _)

\* The class whose declaration of name a derived type at the given depth
\* sees: its own, else that of the last base that has one, looking no deeper
\* than limit levels; 0 if there is none.
DeclaringClass(classId, name, depth, limit) ==
    IF depth > limit THEN 0
    ELSE IF DeclaresEntry(classId, name) THEN classId
    ELSE DeclaringBase(details[classId].baseClasses, name, depth + 1, limit)

DeclaringBase(bases, name, depth, limit) ==
    IF bases = <<>> THEN 0
    ELSE LET later == DeclaringBase(Tail(bases), name, depth, limit)
         IN  IF later # 0 THEN later
             ELSE IF details[Head(bases)].isTypedDictClass
                  THEN DeclaringClass(Head(bases), name, depth, limit)
                  ELSE 0

Cached(c) == typedDictEntries[c].cached

Canonical(c) == typedDictEntries[c].entries

HasModifier(symbol, modifier) ==
    \E i \in 1..Len(symbol.decls) :
        IF modifier = "Required" THEN symbol.decls[i].isRequired
        ELSE symbol.decls[i].isNotRequired

\* C5: a resolved field with no modifier is required iff the class that
\* declares it is total; with an explicit Required it is required, with an
\* explicit NotRequired (and no declaration marked Required) it is not
\* required, whatever the totality of the declaring class.
C5_RequirednessDefault ==
    \A c \in ClassIds : Cached(c) =>
        \A e \in Entries(Canonical(c)) :
            LET owner == DeclaringClass(c, e.name, 0, maxTypeRecursionCount)
            IN  /\ owner # 0
                /\ LET symbol == EntryField(owner, e.name).symbol
                   IN  IF HasModifier(symbol, "Required") THEN e.isRequired
                       ELSE IF HasModifier(symbol, "NotRequired") THEN ~e.isRequired
                       ELSE e.isRequired = ~details[owner].canOmitDictValues

\* A derived type holds an inherited field with no modifier whose declaring
\* class differs from it in totality.
C5_Witness ==
    \E c \in ClassIds :
        /\ Cached(c)
        /\ \E e \in Entries(Canonical(c)) :
               LET owner == DeclaringClass(c, e.name, 0, maxTypeRecursionCount)
               IN  /\ owner \notin {0, c}
                   /\ details[owner].canOmitDictValues # details[c].canOmitDictValues
                   /\ ~HasModifier(EntryField(owner, e.name).symbol, "Required")
                   /\ ~HasModifier(EntryField(owner, e.name).symbol, "NotRequired")

\* The table of c holds, for every name, the entry of the class that
\* declares it for c within limit levels, and no other name.
MergedWithin(c, limit) ==
    \A name \in AllFieldNames :
        LET owner == DeclaringClass(c, name, 0, limit)
        IN  IF owner = 0 THEN ~MapHas(Canonical(c), name)
            ELSE /\ MapHas(Canonical(c), name)
                 /\ MapGet(Canonical(c), name) = OwnEntry(owner, EntryField(owner, name))

\* C6 as stated: the table of a derived type holds every field of every
\* base, however deep, the derived declaration winning over a base's.
C6_AllBaseFields ==
    \A c \in ClassIds : Cached(c) => MergedWithin(c, Cardinality(ClassIds))

\* C6: the table of a derived type holds the fields of the bases that lie
\* within maxTypeRecursionCount levels below it and its own fields; a name
\* declared in the derived type has the derived entry, an inherited one the
\* entry of the last base that has it.
C6_BaseFieldsWithinLimit ==
    \A c \in ClassIds : Cached(c) => MergedWithin(c, maxTypeRecursionCount)

\* A derived type is resolved that redeclares a field of a base and
\* inherits another one.
C6_Witness ==
    \E c \in ClassIds :
        /\ Cached(c)
        /\ \E n1 \in AllFieldNames, n2 \in AllFieldNames :
               /\ DeclaresEntry(c, n1)
               /\ DeclaringBase(details[c].baseClasses, n1, 1, maxTypeRecursionCount) # 0
               /\ DeclaringClass(c, n2, 0, maxTypeRecursionCount) \notin {0, c}

(***************************************************************************)
(* Properties of the memoized table and of narrowing.                      *)
(***************************************************************************)
IsGetMembers == ret.op = "getTypedDictMembersForClass"

\* C7: a call of getTypedDictMembersForClass on a type returns the table
\* that the first call on that type (with the same allowNarrowed) returned,
\* and the merge is started at most once for a class.
C7_MergeDeterminism ==
    /\ (IsGetMembers /\ ret.again) => ret.entries = memo.entries
    /\ \A c \in ClassIds : mergeRuns[c] <= 1

\* A derived type is resolved a second time, after another call, with a
\* table that is not empty.
C7_Witness ==
    /\ IsGetMembers
    /\ ret.again
    /\ ret.entries # <<>>
    /\ details[objs[ret.obj].details].baseClasses # <<>>
    /\ Len(objs) > Cardinality(ClassIds)

\* C8: the memoized table of a class is the table the merge computes for
\* it, and none of its entries is marked provided.
C8_CanonicalTableImmutable ==
    \A c \in ClassIds : Cached(c) =>
        /\ Canonical(c) = getTypedDictMembersForClassRecursive(c, <<>>, 0)
        /\ \A e \in Entries(Canonical(c)) : ~e.isProvided

\* A construction has provided a key of a type whose table is memoized and
\* returned a narrowed clone.
C8_Witness ==
    /\ IsConstruct
    /\ ret.result \notin {0, ret.obj}
    /\ Cached(objs[ret.obj].details)
    /\ \E e \in Entries(Canonical(objs[ret.obj].details)) : e.name \in ProvidedKeys

IsNarrow == ret.op = "narrowForKeyAssignment"

NarrowedMap(obj) == IF obj.narrowed.has THEN obj.narrowed.map ELSE <<>>

\* C9 (step): the call narrowForKeyAssignment(r, k) on the result r of
\* narrowForKeyAssignment(t, k) returns r and creates no type; and every
\* entry marked provided in the input of a narrowing is in its result.
NarrowingIsMonotonic ==
    IsNarrow' =>
        /\ ret'.again => (ret'.result = ret'.obj /\ objs' = objs)
        /\ \A e \in Entries(NarrowedMap(objs[ret'.obj])) :
               e.isProvided => e \in Entries(NarrowedMap(objs'[ret'.result]))

\* C9: narrowing is idempotent and monotonic.
C9_NarrowingIdempotent == [][NarrowingIsMonotonic]_vars

\* The result of a narrowing that made a clone was narrowed again on the
\* same key.
C9_Witness ==
    /\ IsNarrow
    /\ ret.again
    /\ objs[ret.result].narrowed.has
    /\ MapHas(objs[ret.result].narrowed.map, ret.key)
    /\ MapGet(objs[ret.result].narrowed.map, ret.key).isProvided

\* The cases in which narrowForKeyAssignment is to return its input.
NothingToNarrow(obj, key) ==
    \/ ~details[obj.details].isTypedDictClass
    \/ ~Cached(obj.details)
    \/ ~MapHas(Canonical(obj.details), key)
    \/ MapGet(Canonical(obj.details), key).isRequired
    \/ \E e \in Entries(NarrowedMap(obj)) : e.name = key /\ e.isProvided

\* The result r of a narrowing of input on key, in the heap after it.
NarrowResultIs(input, r, heap) ==
    IF NothingToNarrow(input, r.key)
    THEN r.result = r.obj
    ELSE /\ r.result # r.obj
         /\ heap[r.result].details = input.details
         /\ heap[r.result].isTypedDictPartial = input.isTypedDictPartial
         /\ heap[r.result].narrowed.has
         /\ heap[r.result].narrowed.map =
                MapSet(NarrowedMap(input),
                       Entry(r.key, MapGet(Canonical(input.details), r.key).valueType,
                             MapGet(Canonical(input.details), r.key).isReadOnly,
                             FALSE, TRUE))

\* C10 (step): a narrowing leaves every existing type object, its input
\* included, as it was, and returns its input or a new clone whose overlay
\* is the overlay of the input plus the key marked provided.
NarrowingCopiesOnWrite ==
    IsNarrow' =>
        /\ \A i \in ObjIds : objs'[i] = objs[i]
        /\ ret'.result = ret'.obj \/ ret'.result = Len(objs) + 1
        /\ NarrowResultIs(objs[ret'.obj], ret', objs')

\* C10: narrowForKeyAssignment returns its input or a copy-on-write clone.
C10_NarrowCopyOnWrite == [][NarrowingCopiesOnWrite]_vars

\* Two clones narrowed from the same type on different keys, neither
\* holding the key of the other.
C10_Witness ==
    \E i \in Clones, j \in Clones :
        /\ objs[i].details = objs[j].details
        /\ MapKeys(objs[i].narrowed.map) = {"k"}
        /\ MapKeys(objs[j].narrowed.map) = {"m"}
        /\ IsNarrow

(***************************************************************************)
(* Properties of the result of a construction.                             *)
(***************************************************************************)
\* The items of call r whose key is a field that is not required.
NotRequiredItems(r) ==
    {i \in 1..Len(r.items) :
        /\ MapHas(r.symbolMap, r.items[i].key)
        /\ ~MapGet(r.symbolMap, r.items[i].key).isRequired}

\* The last item of call r that provides key.
LastItemFor(r, key) ==
    r.items[CHOOSE i \in 1..Len(r.items) :
                /\ r.items[i].key = key
                /\ \A j \in 1..Len(r.items) : r.items[j].key = key => j <= i]

\* C11 (step): a construction leaves every existing type object as it was;
\* when it succeeds and no provided key is a not-required field it returns
\* its input type, and otherwise a new clone of the input whose overlay holds
\* exactly the provided not-required keys, each marked provided, not
\* required, and with the type of the value provided for it.
ConstructionNarrows ==
    (ret'.op = "assignToTypedDict") =>
        /\ \A i \in ObjIds : objs'[i] = objs[i]
        /\ ret'.result = 0 => objs' = objs
        /\ (ret'.result # 0 /\ NotRequiredItems(ret') = {}) =>
               (ret'.result = ret'.obj /\ objs' = objs)
        /\ (ret'.result # 0 /\ NotRequiredItems(ret') # {}) =>
               /\ ret'.result = Len(objs) + 1
               /\ Len(objs') = Len(objs) + 1
               /\ objs'[ret'.result].details = objs[ret'.obj].details
               /\ objs'[ret'.result].narrowed.has
               /\ MapKeys(objs'[ret'.result].narrowed.map) =
                      {ret'.items[i].key : i \in NotRequiredItems(ret')}
               /\ \A e \in Entries(objs'[ret'.result].narrowed.map) :
                      /\ e.isProvided
                      /\ ~e.isRequired
                      /\ e.valueType = LastItemFor(ret', e.name).valueType

\* C11: the result of a successful assignToTypedDict carries narrowed entries
\* for exactly the provided not-required keys, and the input is not modified.
C11_ConstructionNarrows == [][ConstructionNarrows]_vars

\* A construction on a narrowed clone provided a required and a not-required
\* key and returned a new clone.
C11_Witness ==
    /\ IsConstruct
    /\ ret.result \notin {0, ret.obj}
    /\ objs[ret.obj].narrowed.has
    /\ \E i \in 1..Len(ret.items) : MapGet(ret.symbolMap, ret.items[i].key).isRequired
    /\ NotRequiredItems(ret) # {}

(***************************************************************************)
(* Properties of the type walker.                                          *)
(***************************************************************************)
WalkDone == frames = <<>> /\ history.walks > 0

\* C12: a walk that has started returns from its root, with the depth
\* counter back at 0, whatever cycles the type graph has.
C12_WalkTerminates == (frames # <<>>) ~> (frames = <<>> /\ walker.recursionCount = 0)

\* A walk of a type that refers to itself has returned after it was cut at
\* the depth limit, without any cancellation.
C12_Witness ==
    /\ WalkDone
    /\ history.root \in {1, 16, 18}
    /\ history.pastLimit
    /\ ~history.cancelCalled
    /\ walker.recursionCount = 0

\* The parts of a type that a walk goes through after the visit method of
\* its category is dispatched, in order.
Parts(type) ==
    CASE type.category = "Function" ->
             NamedParameterTypes(type.parameters)
                 \o (IF type.isParamSpecValue \/ type.returnType = 0 THEN <<>>
                     ELSE <<type.returnType>>)
      [] type.category = "OverloadedFunction" -> type.overloads
      [] type.category = "Class" /\ ~type.isPseudoGenericClass ->
             IF type.tupleTypeArguments.has THEN type.tupleTypeArguments.seq
             ELSE type.typeArguments.seq
      [] type.category \in {"Union", "Intersection"} -> type.subtypes
      [] OTHER -> <<>>

RECURSIVE Traverse(_, _)
RECURSIVE TraverseAll(_, _)

\* The log of an uncanceled walk of type t entered at depth count: a type
\* entered past the limit is refused, its parts are not looked at, and the
\* traversal goes on with what follows it.
Traverse(t, count) ==
    IF count > maxTypeRecursionCount THEN <<Visit(t, "limit", count)>>
    ELSE LET type == TypeGraph[t]
         IN  (IF type.hasTypeAliasInfo
              THEN <<Visit(t, "visitTypeAlias", count + 1)>>
                       \o TraverseAll(type.aliasTypeArguments.seq, count + 1)
              ELSE <<>>)
             \o <<Visit(t, VisitMethod(type.category), count + 1)>>
             \o TraverseAll(Parts(type), count + 1)

TraverseAll(types, count) ==
    IF types = <<>> THEN <<>>
    ELSE Traverse(Head(types), count) \o TraverseAll(Tail(types), count)

\* s is the start of t.
IsPrefix(s, t) == Len(s) <= Len(t) /\ s = SubSeq(t, 1, Len(s))

\* C13 (step): a walk entered with the depth counter above
\* maxTypeRecursionCount sets the flag, dispatches no visit method and
\* returns, canceled or not; the flag is set exactly when some walk was
\* entered past the limit and is never reset; as long as the walk is not
\* canceled it goes through everything but the subtrees of the types
\* refused past the limit, in order, and a walk that returns uncanceled has
\* visited all of it.
LimitSkipsSubtree ==
    /\ walker.hitRecursionLimit => walker'.hitRecursionLimit
    /\ walker'.hitRecursionLimit <=> history'.pastLimit
    /\ (At("walk") /\ walker.recursionCount > maxTypeRecursionCount) =>
           /\ walker'.hitRecursionLimit
           /\ walker'.recursionCount = walker.recursionCount
           /\ frames' = Pop
           /\ history'.log = Append(history.log,
                                    Visit(Top.type, "limit", walker.recursionCount))
    /\ (~walker.isWalkCanceled /\ history'.walks > 0) =>
           IsPrefix(history'.log, Traverse(history'.root, 0))
    /\ (WalkDone' /\ ~walker'.isWalkCanceled) =>
           history'.log = Traverse(history'.root, 0)

\* C13: past the depth limit only the subtree is skipped.
C13_LimitSkipsSubtree == [][LimitSkipsSubtree]_vars

\* The first walk of a walker has dispatched a visit method after a type
\* was refused past the limit, was then canceled by an override after the
\* method it overrides had returned, and has returned from its root.
C13_Witness ==
    /\ WalkDone
    /\ history.walks = 1
    /\ history.canceledAfter
    /\ walker.isWalkCanceled
    /\ walker.hitRecursionLimit
    /\ \E i \in 1..Len(history.log), j \in 1..Len(history.log) :
           /\ i < j
           /\ history.log[i].method = "limit"
           /\ history.log[j].method # "limit"

\* C14 (step): once the walk is canceled the flag stays set and no type is
\* entered any more, so no visit method is dispatched on a remaining part
\* of any type on the stack.
CancelStopsWalk ==
    walker.isWalkCanceled =>
        /\ walker'.isWalkCanceled
        /\ walker'.recursionCount <= walker.recursionCount
        /\ \A i \in 1..Len(history'.log) :
               (history'.log # history.log /\ i = Len(history'.log)) =>
                   \/ history'.log[i].method = "limit"
                   \/ /\ frames # <<>>
                      /\ history'.log[i].type = Top.type
                      /\ Top.pc = "switch"

\* C14: after cancelWalk no remaining part is visited.
C14_CancelStopsWalk == [][CancelStopsWalk]_vars

\* A walk of the overloaded function was canceled by an override after the
\* method it overrides had returned, and has returned without visiting all
\* that an uncanceled walk visits.
C14_Witness ==
    /\ WalkDone
    /\ history.root = 8
    /\ history.walks = 1
    /\ history.canceledAfter
    /\ walker.isWalkCanceled
    /\ history.log # <<>>
    /\ Len(history.log) < Len(Traverse(8, 0))
    /\ history.log[Len(history.log)].type # 8

(***************************************************************************)
(* Properties of the subscript access.                                     *)
(***************************************************************************)
IsIndex == ret.op = "getTypeOfIndexedTypedDict"

\* A handled access whose index type is one literal string.
LiteralAccess ==
    /\ IsIndex
    /\ ret.handled
    /\ ret.node.nItems = 1
    /\ Len(ret.indexType) = 1
    /\ ret.indexType[1].kind = "literal"

AccessKey == ret.indexType[1].key

\* The resolved entries of the type accessed, without its overlay.
AccessTable == Canonical(objs[ret.obj].details)

HasMessage(text, key) == \E i \in 1..Len(ret.messages) : ret.messages[i] = Message(text, key)

\* The value of a set is assignable to the value type of the entry.
SetValueFits(entry) ==
    ret.usage.setType = "none" \/ IsSubtype(ret.usage.setType, entry.valueType)

\* C15: for a literal key, an access to a key that is no field emits a
\* diagnostic with a keyUndefined message; a set or del of a field emits a
\* diagnostic exactly when the field is read-only, the value of the set is
\* not assignable to the field, or the del is of a required field, each
\* with its message.
C15_AccessDiagnostics ==
    LiteralAccess =>
        IF ~MapHas(AccessTable, AccessKey)
        THEN ret.diagnostics # <<>> /\ HasMessage("keyUndefined", AccessKey)
        ELSE LET entry == MapGet(AccessTable, AccessKey)
                 method == ret.usage.method
             IN  method # "get" =>
                     /\ HasMessage("keyReadOnly", AccessKey) <=> entry.isReadOnly
                     /\ HasMessage("typeAssignmentMismatch", AccessKey) <=>
                            (method = "set" /\ ~SetValueFits(entry))
                     /\ HasMessage("keyRequiredDeleted", AccessKey) <=>
                            (method = "del" /\ entry.isRequired)
                     /\ (ret.diagnostics # <<>>) <=>
                            \/ entry.isReadOnly
                            \/ method = "set" /\ ~SetValueFits(entry)
                            \/ method = "del" /\ entry.isRequired

\* A del of a not-required read-only field has emitted a diagnostic.
C15_Witness ==
    /\ LiteralAccess
    /\ ret.usage.method = "del"
    /\ MapHas(AccessTable, AccessKey)
    /\ MapGet(AccessTable, AccessKey).isReadOnly
    /\ ~MapGet(AccessTable, AccessKey).isRequired
    /\ ret.diagnostics # <<>>

\* C16 as stated: the diagnostic of an access is reported under
\* reportTypedDictNotRequiredAccess if and only if every message that
\* contributes to it is a not-required-key access.
C16_SoftRuleOnlyForNotRequired ==
    (IsIndex /\ ret.handled /\ ret.node.nItems = 1 /\ ret.diagnostics # <<>>) =>
        ( ret.diagnostics[1].rule = "reportTypedDictNotRequiredAccess"
            <=> \A i \in 1..Len(ret.messages) : ret.messages[i].text = "keyNotRequired" )

\* C17: a get of a field that is not required is flagged with a
\* keyNotRequired message exactly when the key is not marked provided in
\* the overlay of the type accessed and the access is outside a try block.
C17_NotRequiredGet ==
    (LiteralAccess /\ ret.usage.method = "get" /\ MapHas(AccessTable, AccessKey)) =>
        LET entry == MapGet(AccessTable, AccessKey)
            overlay == NarrowedMap(objs[ret.obj])
            provided == MapHas(overlay, AccessKey) /\ MapGet(overlay, AccessKey).isProvided
        IN  /\ ~entry.isRequired =>
                   /\ HasMessage("keyNotRequired", AccessKey) <=> (~provided /\ ~ret.node.inTry)
                   /\ (ret.diagnostics # <<>>) <=> (~provided /\ ~ret.node.inTry)
            /\ entry.isRequired => ret.diagnostics = <<>>

\* A get, outside a try block, of a not-required key on a clone that has
\* the key marked provided is not flagged, while the type the clone was made
\* from has no overlay.
C17_Witness ==
    /\ LiteralAccess
    /\ ret.usage.method = "get"
    /\ ~ret.node.inTry
    /\ objs[ret.obj].narrowed.has
    /\ MapHas(objs[ret.obj].narrowed.map, AccessKey)
    /\ MapHas(AccessTable, AccessKey)
    /\ ~MapGet(AccessTable, AccessKey).isRequired
    /\ ret.diagnostics = <<>>

\* The subscript has one simple item without a keyword name and without a
\* trailing comma.
SupportedShape(node) ==
    node.nItems = 1 /\ ~node.trailingComma /\ ~node.hasName /\ node.isSimple

\* C18 as stated: every other shape of the subscript is not handled.
C18_OtherShapesNotHandled ==
    IsIndex => (ret.handled <=> SupportedShape(ret.node))

\* C18: a subscript with zero or several items is answered with Unknown
\* and a typeArgsMismatchOne diagnostic; a subscript with one item that has
\* a keyword name, is unpacked or is followed by a comma is not handled and
\* gets no diagnostic; every other subscript is handled.
C18_SubscriptShapes ==
    IsIndex =>
        IF ret.node.nItems # 1
        THEN /\ ret.handled
             /\ ret.types = <<"Unknown">>
             /\ Len(ret.diagnostics) = 1
             /\ ret.diagnostics[1].rule = "reportGeneralTypeIssues"
             /\ ret.diagnostics[1].message = "typeArgsMismatchOne"
        ELSE IF ret.node.trailingComma \/ ret.node.hasName \/ ~ret.node.isSimple
        THEN ~ret.handled /\ ret.diagnostics = <<>>
        ELSE ret.handled

\* A subscript with one item and a trailing comma was not handled.
C18_Witness ==
    /\ IsIndex
    /\ ret.node.nItems = 1
    /\ ret.node.trailingComma
    /\ ~ret.node.hasName
    /\ ret.node.isSimple
    /\ ~ret.handled

(***************************************************************************)
(* Partial views.                                                          *)
(***************************************************************************)
\* The entry of a partial view made from a canonical entry.
PartialViewOf(canonicalEntry, e) ==
    /\ ~e.isRequired
    /\ e.isReadOnly
    /\ (e.valueType = "Never") <=> canonicalEntry.isReadOnly

\* The members of a partial view were returned.
IsPartialMembers == IsGetMembers /\ objs[ret.obj].isTypedDictPartial

\* The memoized table of the class of the type asked about is the merge
\* of the declarations of its classes.
CanonicalIsMerge ==
    LET c == objs[ret.obj].details
    IN  /\ Cached(c)
        /\ Canonical(c) = getTypedDictMembersForClassRecursive(c, <<>>, 0)

\* C19 as stated: every entry returned for a partial view, narrowed
\* entries included, is not required and read-only, with the never type
\* exactly when the canonical entry is read-only.
C19_PartialViewAllEntries ==
    IsPartialMembers =>
        LET canonical == Canonical(objs[ret.obj].details)
        IN  /\ CanonicalIsMerge
            /\ \A i \in 1..Len(ret.entries) :
                   /\ MapHas(canonical, ret.entries[i].name)
                   /\ PartialViewOf(MapGet(canonical, ret.entries[i].name), ret.entries[i])

\* C19: for a partial view the returned table has the names of the
\* canonical table; an entry whose name is in the narrowed entries of the
\* type, when narrowed entries were asked for, is the narrowed entry as it
\* is; every other entry is not required and read-only, with the never
\* type exactly when the canonical entry is read-only; the canonical table
\* is the merge of the declarations, unchanged by the request.
C19_PartialView ==
    IsPartialMembers =>
        LET canonical == Canonical(objs[ret.obj].details)
            overlay == IF ret.allowNarrowed THEN NarrowedMap(objs[ret.obj]) ELSE <<>>
        IN  /\ CanonicalIsMerge
            /\ MapKeys(ret.entries) = MapKeys(canonical)
            /\ Len(ret.entries) = Len(canonical)
            /\ \A i \in 1..Len(ret.entries) :
                   LET e == ret.entries[i]
                   IN  IF MapHas(overlay, e.name)
                       THEN e = MapGet(overlay, e.name)
                       ELSE PartialViewOf(MapGet(canonical, e.name), e)

\* The members of a partial view that carries narrowed entries were
\* returned with the narrowed entries: one entry comes from the narrowed
\* entries, one was writable and required in the canonical table and is
\* read-only and not required in the view, one was read-only and has the
\* never type.
C19_Witness ==
    /\ IsPartialMembers
    /\ ret.allowNarrowed
    /\ objs[ret.obj].narrowed.has
    /\ \E i \in 1..Len(ret.entries) :
           MapHas(objs[ret.obj].narrowed.map, ret.entries[i].name)
    /\ \E i \in 1..Len(ret.entries) :
           LET e == ret.entries[i]
               c == MapGet(Canonical(objs[ret.obj].details), e.name)
           IN  /\ ~MapHas(objs[ret.obj].narrowed.map, e.name)
               /\ c.isRequired /\ ~c.isReadOnly
               /\ ~e.isRequired /\ e.isReadOnly /\ e.valueType = c.valueType
    /\ \E i \in 1..Len(ret.entries) :
           LET e == ret.entries[i]
               c == MapGet(Canonical(objs[ret.obj].details), e.name)
           IN  /\ ~MapHas(objs[ret.obj].narrowed.map, e.name)
               /\ c.isReadOnly
               /\ e.valueType = "Never"

(***************************************************************************)
(* Narrowed entries on request.                                            *)
(***************************************************************************)
\* The table of the type asked about, had it no narrowed entries.
TableWithoutNarrowing ==
    getTypedDictMembersForClass(typedDictEntries,
        [objs[ret.obj] EXCEPT !.narrowed = NoNarrowedEntries], ret.allowNarrowed)

\* C20: asked with allowNarrowed, getTypedDictMembersForClass returns the
\* table of the type without narrowing in which every narrowed entry
\* stands in the place of the entry of its name; asked without, it returns
\* the table of the type without narrowing.
C20_NarrowedOnRequest ==
    IsGetMembers =>
        LET resolved == TableWithoutNarrowing
            overlay == NarrowedMap(objs[ret.obj])
        IN  IF ret.allowNarrowed
            THEN /\ Len(ret.entries) = Len(resolved)
                 /\ MapKeys(overlay) \subseteq MapKeys(resolved)
                 /\ \A i \in 1..Len(resolved) :
                        ret.entries[i] =
                            IF MapHas(overlay, resolved[i].name)
                            THEN MapGet(overlay, resolved[i].name)
                            ELSE resolved[i]
            ELSE ret.entries = resolved

\* The members of a type with a narrowed entry that differs from the
\* resolved entry of its name were returned with the narrowed entry in
\* its place, next to an entry that is not narrowed.
C20_Witness ==
    /\ IsGetMembers
    /\ ret.allowNarrowed
    /\ objs[ret.obj].narrowed.has
    /\ \E i \in 1..Len(ret.entries) :
           /\ MapHas(objs[ret.obj].narrowed.map, ret.entries[i].name)
           /\ ret.entries[i] # TableWithoutNarrowing[i]
           /\ ret.entries[i].valueType # TableWithoutNarrowing[i].valueType
    /\ \E i \in 1..Len(ret.entries) :
           ~MapHas(objs[ret.obj].narrowed.map, ret.entries[i].name)

(***************************************************************************)
(* Inheritance cycles.                                                     *)
(***************************************************************************)
RECURSIVE BasesAt(_, _)
\* The typed dict classes that lie depth levels of inheritance below the
\* classes of from.
BasesAt(from, depth) ==
    IF depth = 0 THEN from
    ELSE BasesAt({b \in ClassIds :
                    /\ details[b].isTypedDictClass
                    /\ \E c \in from :
                           \E i \in 1..Len(details[c].baseClasses) :
                               details[c].baseClasses[i] = b},
                 depth - 1)

\* The class is among its own bases, at some level.
OnCycle(c) == \E depth \in 1..Cardinality(ClassIds) : c \in BasesAt({c}, depth)

\* C21: a call of getTypedDictMembersForClass on a class whose bases form a
\* cycle returns; the table of the class is memoized after one merge, it
\* holds each name once, and for every name the entry of the class that
\* declares it within maxTypeRecursionCount levels, and the table returned
\* has the names of the memoized one.
C21_CyclesTolerated ==
    IsGetMembers =>
        LET c == objs[ret.obj].details
        IN  /\ Cached(c)
            /\ mergeRuns[c] = 1
            /\ MergedWithin(c, maxTypeRecursionCount)
            /\ Cardinality(MapKeys(Canonical(c))) = Len(Canonical(c))
            /\ [i \in 1..Len(ret.entries) |-> ret.entries[i].name]
                   = [i \in 1..Len(Canonical(c)) |-> Canonical(c)[i].name]

\* The table of a class that derives from a class without bases and then
\* from a class on a cycle was returned: it holds the field of the first
\* base, and a field declared only by another class of the cycle.
C21_Witness ==
    /\ IsGetMembers
    /\ LET c == objs[ret.obj].details
           bases == details[c].baseClasses
       IN  /\ Len(bases) = 2
           /\ ~OnCycle(bases[1])
           /\ OnCycle(bases[2])
           /\ \E i \in 1..Len(ret.entries) :
                  DeclaringClass(c, ret.entries[i].name, 0, maxTypeRecursionCount) = bases[1]
           /\ \E i \in 1..Len(ret.entries) :
                  LET owner == DeclaringClass(c, ret.entries[i].name, 0, maxTypeRecursionCount)
                  IN  owner \notin {0, c, bases[1], bases[2]} /\ OnCycle(owner)

(***************************************************************************)
(* Creation of a class from a call of TypedDict or an inlined annotation.  *)
(***************************************************************************)
IsCreate == ret.op \in {"createTypedDictType", "createTypedDictTypeInlined"}

\* The symbol table of the class created.
CreatedFields == details[objs[ret.obj].details].fields

\* The entries of a dictionary expression that give a field: a key entry
\* whose key is a string literal that is not empty.
DictGiven(entries) ==
    LET idx == {i \in 1..Len(entries) :
                   /\ entries[i].nodeType = "DictionaryKeyEntry"
                   /\ entries[i].keyExpression.nodeType = "StringList"
                   /\ entries[i].keyExpression.value # ""}
    IN  [i \in idx |-> [name |-> entries[i].keyExpression.value,
                        decl |-> entries[i].valueExpression.decl,
                        diag |-> Diag("typedDictEntryUnique", "entry", i)]]

\* The keyword arguments after the first argument.
KeywordGiven(argList) ==
    LET idx == {i \in 2..Len(argList) : argList[i].name # ""}
    IN  [i \in idx |-> [name |-> argList[i].name,
                        decl |-> argList[i].valueExpression.decl,
                        diag |-> Diag("typedDictEntryUnique", "arg", i)]]

\* The occurrences of field names in the syntax that the creation used, by
\* position.
Given ==
    IF ret.op = "createTypedDictTypeInlined" THEN DictGiven(ret.dictNode.entries)
    ELSE IF Len(ret.argList) < 2 THEN <<>>
    ELSE IF /\ ret.argList[2].argumentCategory = "Simple"
            /\ ret.argList[2].valueExpression.nodeType = "Dictionary"
    THEN DictGiven(ret.argList[2].valueExpression.entries)
    ELSE IF ret.argList[2].name # "" THEN KeywordGiven(ret.argList)
    ELSE <<>>

UniqueDiags == {i \in 1..Len(ret.diag) : ret.diag[i].message = "typedDictEntryUnique"}

\* C22: in the dictionary syntax, the keyword syntax and the inline form,
\* the first occurrence of a field name gives the field its declaration
\* and gets no diagnostic, every later occurrence gets one
\* typedDictEntryUnique diagnostic and changes nothing (n occurrences make
\* n - 1 diagnostics), and the symbol table holds each name once.
C22_DuplicateFields ==
    IsCreate =>
        /\ \A i \in DOMAIN Given :
               LET occ == Given[i]
                   reports == {d \in UniqueDiags : ret.diag[d] = occ.diag}
               IN  IF \E j \in DOMAIN Given : j < i /\ Given[j].name = occ.name
                   THEN Cardinality(reports) = 1
                   ELSE /\ reports = {}
                        /\ MapHas(CreatedFields, occ.name)
                        /\ MapGet(CreatedFields, occ.name).symbol.decls = <<occ.decl>>
        /\ Cardinality(UniqueDiags)
               = Cardinality(DOMAIN Given) - Cardinality({Given[i].name : i \in DOMAIN Given})
        /\ Cardinality(MapKeys(CreatedFields)) = Len(CreatedFields)

\* A name was given three times, the second time with another value
\* expression than the first: two diagnostics, and the field has the
\* declaration of the first.
C22_Witness ==
    /\ IsCreate
    /\ \E i \in DOMAIN Given, j \in DOMAIN Given, k \in DOMAIN Given :
           /\ i < j /\ j < k
           /\ Given[i].name = Given[j].name
           /\ Given[j].name = Given[k].name
           /\ Given[i].decl # Given[j].decl
           /\ MapGet(CreatedFields, Given[i].name).symbol.decls = <<Given[i].decl>>
    /\ Cardinality(UniqueDiags) = 2

\* The first argument is a string literal passed as a simple argument.
FirstArgIsLiteral ==
    /\ Len(ret.argList) > 0
    /\ ret.argList[1].argumentCategory = "Simple"
    /\ ret.argList[1].valueExpression.nodeType = "StringList"

HasFirstArgDiag == \E i \in 1..Len(ret.diag) : ret.diag[i].message = "typedDictFirstArg"

\* C23 as stated: createTypedDictType names the class by the default
\* 'TypedDict' exactly when it reports typedDictFirstArg, and a first
\* argument that is a simple string literal gives the class its value as
\* the name, without that diagnostic.
C23_DefaultNameIffDiagnostic ==
    ret.op = "createTypedDictType" =>
        /\ (~FirstArgIsLiteral \/ ret.name # ret.argList[1].valueExpression.value)
               <=> HasFirstArgDiag
        /\ FirstArgIsLiteral =>
               /\ ret.name = ret.argList[1].valueExpression.value
               /\ ~HasFirstArgDiag

\* The methods of a class were synthesized.
IsSynthesized == "methods" \in DOMAIN ret

\* C24 as stated: clear and popitem are added exactly when the class is
\* final, no entry is required and every entry is writable.
C24_ClearAndPopitem ==
    IsSynthesized =>
        LET sealedOptionalWritable ==
                /\ ret.isClassFinal
                /\ \A i \in 1..Len(ret.entries) :
                       ~ret.entries[i].isRequired /\ ~ret.entries[i].isReadOnly
        IN  /\ ("clear" \in Entries(ret.methods)) <=> sealedOptionalWritable
            /\ ("popitem" \in Entries(ret.methods)) <=> sealedOptionalWritable


(***************************************************************************)
(* Diagnostic sinks.                                                       *)
(***************************************************************************)
SameRangeAndMessage(d1, d2) == d1.range = d2.range /\ d1.message = d2.message

HoldsTwice(list) ==
    \E i \in 1..Len(list), j \in 1..Len(list) :
        i < j /\ SameRangeAndMessage(list[i], list[j])

\* C25: the diagnosticList of a sink never contains two diagnostics with
\* the same range and the same message, whatever add methods, addDiagnostics
\* and fetchAndClear calls were made on it and whatever list it was
\* constructed with.
C25_NoTwoWithSameRangeAndMessage ==
    \A s \in 1..Len(sinks) : ~HoldsTwice(DiagnosticList(arrays, sinks[s]))

IsAdd == "added" \in DOMAIN ret

IsSinkUpdate == IsAdd \/ ret.op \in {"addDiagnostics", "fetchAndClear"}

SinkState(heap, sink) ==
    [diagnosticList |-> DiagnosticList(heap, sink), diagnosticMap |-> sink.diagnosticMap]

NewVisits == {i \in 1..Len(history'.log) : i > Len(history.log)}

\* C26: once cancelWalk has been called no visit method of a category is
\* dispatched on any type for the rest of the walk, the type whose alias
\* arguments were being visited at the cancellation included.
C26_NoHookAfterCancel ==
    [][walker.isWalkCanceled => \A i \in NewVisits : history'.log[i].method = "limit"]_vars


\* The walk calls on the stack that have passed line 52.
Entered == {k \in 1..Len(frames) : frames[k].pc # "walk"}

\* C27: the depth counter is between 0 and maxTypeRecursionCount + 1, it
\* counts the walk calls in progress that have incremented it, so that a
\* call that returns leaves it as it found it, and it is 0 when no walk is
\* in progress, whether the last walk ran to completion, was canceled or
\* hit the limit.
C27_DepthCounter ==
    /\ walker.recursionCount \in 0..(maxTypeRecursionCount + 1)
    /\ walker.recursionCount = Cardinality(Entered)
    /\ \A k \in 1..Len(frames) : frames[k].pc = "walk" => k = Len(frames)
    /\ frames = <<>> => walker.recursionCount = 0

\* The first walk of a walker, of the function that is its own return
\* type, was refused past the limit and canceled afterwards by an override
\* whose overridden method had returned, and has returned from its root.
C27_Witness ==
    /\ WalkDone
    /\ history.walks = 1
    /\ history.root = 16
    /\ history.pastLimit
    /\ history.canceledAfter
    /\ walker.hitRecursionLimit
    /\ walker.isWalkCanceled


(***************************************************************************)
(* The narrowed entries of the clones.                                     *)
(***************************************************************************)
\* The entry is marked provided and not required, and its key is a key of
\* the table.
IsOverlayOf(e, table) ==
    /\ e.isProvided
    /\ ~e.isRequired
    /\ MapHas(table, e.name)

\* C28 as stated: every narrowed entry of a type is provided and not
\* required, and its key is a field of the canonical table of the class
\* that is not required there.
C28_OverlayOfCanonical ==
    \A o \in Clones :
        \A e \in Entries(objs[o].narrowed.map) :
            /\ IsOverlayOf(e, Canonical(objs[o].details))
            /\ ~MapGet(Canonical(objs[o].details), e.name).isRequired

\* C28: every narrowed entry of a type is provided and not required, and
\* its key is a field of the canonical table of the class; the field is not
\* required in the table that getTypedDictMembersForClass returns for the
\* type, which is the canonical table unless the type is a partial view.
C28_OverlayOfMembers ==
    \A o \in Clones :
        \A e \in Entries(objs[o].narrowed.map) :
            /\ IsOverlayOf(e, Canonical(objs[o].details))
            /\ ~MapGet(getTypedDictMembersForClass(typedDictEntries, objs[o], FALSE),
                       e.name).isRequired
            /\ MapGet(Canonical(objs[o].details), e.name).isRequired =>
                   objs[o].isTypedDictPartial

\* A construction for a narrowed clone has returned a clone with another
\* narrowed entry, while a partial view holds a narrowed entry for a field
\* that the class requires.
C28_Witness ==
    /\ ret.op = "assignToTypedDict"
    /\ ret.result \in Clones
    /\ ret.obj \in Clones
    /\ objs[ret.result].narrowed.map # objs[ret.obj].narrowed.map
    /\ \E o \in Clones :
           /\ objs[o].isTypedDictPartial
           /\ \E e \in Entries(objs[o].narrowed.map) :
                  MapGet(Canonical(objs[o].details), e.name).isRequired


(***************************************************************************)
(* The result of a construction as a source.                               *)
(***************************************************************************)
\* The step assigns the result of the construction that has just returned
\* to the type it was constructed for.
IsAssignOfResult ==
    /\ ret.op = "assignToTypedDict"
    /\ ret.isMatch
    /\ ret'.op = "assignTypedDictToTypedDict"
    /\ ret'.dest = ret.obj
    /\ ret'.src = ret.result

\* C29: the type that a successful assignToTypedDict returns for t is
\* assignable to t: assignTypedDictToTypedDict with destination t and that
\* type as source returns true.
C29_ResultIsAssignable == [][IsAssignOfResult => ret'.result]_vars

====
